---- MODULE Spec2Model ----
(***************************************************************************)
(* A model of the data-flow core of the analyzer:                          *)
(*   - DataFlowGraph (code_info/data_flow/graph.rs)                        *)
(*   - the unused-variable analyzer (analyzer/dataflow)                    *)
(*   - the incremental diff engine (orchestrator/diff.rs)                  *)
(*   - the type expander (code_info/ttype/type_expander.rs)                *)
(* Each part has its own specification over the shared variables.          *)
(***************************************************************************)
EXTENDS Integers, Sequences, FiniteSets, TLC

VARIABLES
    g,                \* the DataFlowGraph under construction (self of the methods)
    panicked,         \* TRUE once add_graph has panicked on differing graph kinds
    walk,             \* the last get_origin_node_ids call: its arguments and what it returned
    usage,            \* the last is_variable_used call: its source and what it returned
    existing_issues,  \* FxHashMap<FilePath, Vec<Issue>> that update_issues_from_diff edits
    diff_in,          \* the arguments of update_issues_from_diff, and the issues as loaded
    diff_pc,          \* "loaded" before update_issues_from_diff, "updated" after
    scan_in,          \* the arguments of add_unused_expression_replacements
    scan,             \* the Scanner's in_single_block and analysis_data.replacements
    scan_pc,          \* index of the next statement of the loop over stmts
    expand_in,        \* the union, options and interner expand_union is called with
    expanded,         \* the union and data-flow graph after each expand_union call
    expand_pc         \* number of expand_union calls made on the union

graphVars == <<g, panicked>>

queryVars == <<walk, usage>>

diffVars == <<existing_issues, diff_in, diff_pc>>

scanVars == <<scan_in, scan, scan_pc>>

expandVars == <<expand_in, expanded, expand_pc>>

vars == <<graphVars, queryVars, diffVars, scanVars, expandVars>>

(***************************************************************************)
(* Generic map helpers: an FxHashMap is a function whose DOMAIN is the set *)
(* of keys present.                                                        *)
(***************************************************************************)
EmptyMap == [x \in {} |-> x]

\* HashMap::insert(k, v): later insertion wins
Put(m, k, v) == [x \in (DOMAIN m) \cup {k} |-> IF x = k THEN v ELSE m[x]]

\* map.entry(k).or_default(), the default being the empty set or the empty map
At(m, k, default) == IF k \in DOMAIN m THEN m[k] ELSE default

\* the elements of set S in the iteration order ord (a sequence without
\* repetitions that contains every element of S)
InOrder(S, ord) == SelectSeq(ord, LAMBDA x : x \in S)

\* all sequences that enumerate the set S once
RECURSIVE Perms(_)
Perms(S) ==
    IF S = {} THEN {<< >>}
    ELSE UNION {{<<x>> \o p : p \in Perms(S \ {x})} : x \in S}

Range(s) == {s[i] : i \in DOMAIN s}

NoDup(s) == \A i, j \in DOMAIN s : i # j => s[i] # s[j]

(***************************************************************************)
(* Node ids, node kinds, path kinds                                        *)
(***************************************************************************)
NoKey == "none"

Var(n) == [tag |-> "Var", n |-> n, key |-> NoKey]

CallTo(f) == [tag |-> "CallTo", n |-> f, key |-> NoKey]

SpecializedCallTo(f, k) == [tag |-> "SpecializedCallTo", n |-> f, key |-> k]

\* DataFlowNodeId::unspecialize: the base id and the stripped (file, offset) key
unspecialize(id) == <<CallTo(id.n), id.key>>

\* no is_variable_used call made yet
NoUsage == [source |-> Var(0), result |-> "", rounds |-> 0]

\* no get_origin_node_ids call made yet
NoWalk ==
    [id |-> Var(0), ignore_paths |-> {}, var_ids_only |-> FALSE,
     origin_nodes |-> << >>, rounds |-> 0]

\* the parts of the analyzer that a specification does not use stay as they
\* are here
Idle(used) ==
    /\ IF "graph" \in used THEN TRUE ELSE g = << >> /\ panicked = FALSE
    /\ IF "query" \in used THEN TRUE ELSE walk = NoWalk /\ usage = NoUsage
    /\ IF "diff" \in used
       THEN TRUE ELSE existing_issues = << >> /\ diff_in = << >> /\ diff_pc = "idle"
    /\ IF "scan" \in used THEN TRUE ELSE scan_in = << >> /\ scan = << >> /\ scan_pc = 0
    /\ IF "expand" \in used
       THEN TRUE ELSE expand_in = << >> /\ expanded = << >> /\ expand_pc = 0

SourceKinds == {"TaintSource", "VariableUseSource", "DataSource", "ForLoopInit"}

SinkKinds == {"TaintSink", "VariableUseSink"}

\* an HPos, reduced to its offsets
HPos(start_offset, end_offset) == [start_offset |-> start_offset, end_offset |-> end_offset]

\* a DataFlowNodeKind; is_specialized is meaningful for Vertex only, and
\* source_kind and pure for VariableUseSource only
Kind(k, is_specialized) ==
    [k |-> k, is_specialized |-> is_specialized, pos |-> HPos(0, 0),
     source_kind |-> "Default", pure |-> FALSE]

VariableUseSource(pos, source_kind, pure) ==
    [k |-> "VariableUseSource", is_specialized |-> FALSE, pos |-> pos,
     source_kind |-> source_kind, pure |-> pure]

VariableUseSink(pos) ==
    [k |-> "VariableUseSink", is_specialized |-> FALSE, pos |-> pos,
     source_kind |-> "Default", pure |-> FALSE]

Node(id, kind) == [id |-> id, kind |-> kind]

\* a PathKind: adk is the ArrayDataKind, key the array key or property name
PK(k, adk, key) == [k |-> k, adk |-> adk, key |-> key]

PKDefault == PK("Default", "", "")

PKAggregate == PK("Aggregate", "", "")

DataFlowPath(kind, added_taints, removed_taints) ==
    [kind |-> kind, added_taints |-> added_taints, removed_taints |-> removed_taints]

GraphKinds == {"FunctionBody", "WholeProgramTaint", "WholeProgramQuery"}

IsWholeProgram(kind) == kind \in {"WholeProgramTaint", "WholeProgramQuery"}

(***************************************************************************)
(* DataFlowGraph                                                           *)
(***************************************************************************)
new(kind) ==
    [kind |-> kind,
     vertices |-> EmptyMap,
     forward_edges |-> EmptyMap,
     backward_edges |-> EmptyMap,
     sources |-> EmptyMap,
     sinks |-> EmptyMap,
     mixed_source_counts |-> EmptyMap,
     specializations |-> EmptyMap,
     specialized_calls |-> EmptyMap]

add_node_sinks_as_sources(G, node) ==
    IF node.kind.k = "Vertex"
    THEN [G EXCEPT !.vertices = Put(@, node.id, node)]
    ELSE [G EXCEPT !.sources = Put(@, node.id, node)]

add_node(G, node) ==
    CASE node.kind.k = "Vertex" ->
            LET G1 == IF IsWholeProgram(G.kind) /\ node.kind.is_specialized
                      THEN LET u == unspecialize(node.id)
                           IN [G EXCEPT
                                 !.specializations = Put(@, u[1], At(@, u[1], {}) \cup {u[2]}),
                                 !.specialized_calls = Put(@, u[2], At(@, u[2], {}) \cup {u[1]})]
                      ELSE G
            IN [G1 EXCEPT !.vertices = Put(@, node.id, node)]
      [] node.kind.k \in SourceKinds ->
            [G EXCEPT !.sources = Put(@, node.id, node)]
      [] node.kind.k \in SinkKinds ->
            [G EXCEPT !.sinks = Put(@, node.id, node)]

add_path_keep_self_loops(G, from_id, to_id, path_kind, added_taints, removed_taints) ==
    LET G1 == IF G.kind = "FunctionBody"
              THEN [G EXCEPT !.backward_edges = Put(@, to_id, At(@, to_id, {}) \cup {from_id})]
              ELSE G
    IN [G1 EXCEPT !.forward_edges =
            Put(@, from_id,
                Put(At(@, from_id, EmptyMap), to_id,
                    DataFlowPath(path_kind, added_taints, removed_taints)))]

add_path(G, from_id, to_id, path_kind, added_taints, removed_taints) ==
    IF from_id = to_id
    THEN G
    ELSE LET G1 == IF G.kind = "FunctionBody"
                   THEN [G EXCEPT !.backward_edges =
                            Put(@, to_id, At(@, to_id, {}) \cup {from_id})]
                   ELSE G
         IN [G1 EXCEPT !.forward_edges =
                 Put(@, from_id,
                     Put(At(@, from_id, EmptyMap), to_id,
                         DataFlowPath(path_kind, added_taints, removed_taints)))]

\* for (key, edges) in other { m.entry(key).or_default().extend(edges) }, maps of maps
MergeMapOfMaps(m, other) ==
    [x \in (DOMAIN m) \cup (DOMAIN other) |->
        IF x \in DOMAIN other THEN (other[x] @@ At(m, x, EmptyMap)) ELSE m[x]]

\* the same for maps of sets
MergeMapOfSets(m, other) ==
    [x \in (DOMAIN m) \cup (DOMAIN other) |->
        IF x \in DOMAIN other THEN At(m, x, {}) \cup other[x] ELSE m[x]]

add_graph_drop_backward(G, graph) ==
    [G EXCEPT
        !.forward_edges = MergeMapOfMaps(@, graph.forward_edges),
        !.vertices = (graph.vertices @@ @),
        !.sources = (graph.sources @@ @),
        !.sinks = (graph.sinks @@ @)]

\* add_graph for graphs of the same kind (the caller panics otherwise)
add_graph(G, graph) ==
    LET G1 == [G EXCEPT !.forward_edges = MergeMapOfMaps(@, graph.forward_edges)]
        G2 == IF G.kind = "FunctionBody"
              THEN [G1 EXCEPT
                      !.backward_edges = MergeMapOfSets(@, graph.backward_edges),
                      !.mixed_source_counts = MergeMapOfSets(@, graph.mixed_source_counts)]
              ELSE [G1 EXCEPT
                      !.specializations = MergeMapOfSets(@, graph.specializations)]
    IN [G2 EXCEPT
          !.vertices = (graph.vertices @@ @),
          !.sources = (graph.sources @@ @),
          !.sinks = (graph.sinks @@ @)]

(***************************************************************************)
(* get_origin_node_ids: the bounded backward walk.  FxHashSet iteration    *)
(* order is not specified; ord is the order in which the sets are          *)
(* iterated (a permutation of the ids of the graph).                       *)
(***************************************************************************)
OriginBudget == 50

\* the visited test at the head of the child loop
SkipVisitedNever(visited_child_ids, child_node_id) == FALSE

SkipVisited(visited_child_ids, child_node_id) == child_node_id \in visited_child_ids

\* a loop that collects the unvisited parents and forgets the visited ones
ScanParentsUnvisitedOnly(G, child_node_id, froms, visited_child_ids, ignore_paths, st) ==
    [st EXCEPT !.new_parent_nodes =
        {from_id \in Range(froms) :
            /\ from_id \in DOMAIN G.vertices \/ from_id \in DOMAIN G.sources
            /\ from_id \notin visited_child_ids}]

\* the loop over backward_edges[child]; st = [new_parent_nodes, has_visited_a_parent_already]
RECURSIVE ScanParents(_, _, _, _, _, _)
ScanParents(G, child_node_id, froms, visited_child_ids, ignore_paths, st) ==
    IF froms = << >>
    THEN st
    ELSE LET from_id == Head(froms)
             ignored == /\ from_id \in DOMAIN G.forward_edges
                        /\ child_node_id \in DOMAIN G.forward_edges[from_id]
                        /\ G.forward_edges[from_id][child_node_id].kind \in ignore_paths
         IN IF ignored
            THEN st   \* break
            ELSE ScanParents(G, child_node_id, Tail(froms), visited_child_ids, ignore_paths,
                    IF from_id \in DOMAIN G.vertices \/ from_id \in DOMAIN G.sources
                    THEN IF from_id \notin visited_child_ids
                         THEN [st EXCEPT !.new_parent_nodes = @ \cup {from_id}]
                         ELSE [st EXCEPT !.has_visited_a_parent_already = TRUE]
                    ELSE st)

\* one round: the loop over child_node_ids;
\* st = [visited_child_ids, origin_nodes, all_parent_nodes]
RECURSIVE WalkChildren(_, _, _, _, _, _)
WalkChildren(G, child_node_ids, ignore_paths, var_ids_only, ord, st) ==
    IF child_node_ids = << >>
    THEN st
    ELSE LET child_node_id == Head(child_node_ids)
             rest == Tail(child_node_ids)
         IN IF SkipVisited(st.visited_child_ids, child_node_id)
            THEN WalkChildren(G, rest, ignore_paths, var_ids_only, ord, st)
            ELSE LET visited == st.visited_child_ids \cup {child_node_id}
                     st1 == [st EXCEPT !.visited_child_ids = visited]
                 IN IF var_ids_only /\ child_node_id.tag \in {"Var", "Param"}
                    THEN WalkChildren(G, rest, ignore_paths, var_ids_only, ord,
                            [st1 EXCEPT !.origin_nodes = Append(@, child_node_id)])
                    ELSE LET p == ScanParents(G, child_node_id,
                                    InOrder(At(G.backward_edges, child_node_id, {}), ord),
                                    visited, ignore_paths,
                                    [new_parent_nodes |-> {},
                                     has_visited_a_parent_already |-> FALSE])
                         IN WalkChildren(G, rest, ignore_paths, var_ids_only, ord,
                              IF p.new_parent_nodes = {}
                              THEN IF ~p.has_visited_a_parent_already
                                   THEN [st1 EXCEPT !.origin_nodes = Append(@, child_node_id)]
                                   ELSE st1
                              ELSE [st1 EXCEPT !.all_parent_nodes =
                                      @ \o InOrder(p.new_parent_nodes \ visited, ord)])

\* a walk that never runs out of rounds
OriginBudgetSpentNever(n) == FALSE

\* the end of the range 0..50
OriginBudgetSpent(n) == n >= OriginBudget

\* for _ in 0..50 { ... }; n counts the rounds already run
RECURSIVE OriginRounds(_, _, _, _, _, _, _)
OriginRounds(G, child_node_ids, ignore_paths, var_ids_only, ord, st, n) ==
    IF OriginBudgetSpent(n)
    THEN [st EXCEPT !.rounds = n]
    ELSE LET st1 == WalkChildren(G, child_node_ids, ignore_paths, var_ids_only, ord,
                        [st EXCEPT !.all_parent_nodes = << >>])
         IN IF st1.all_parent_nodes = << >>
            THEN [st1 EXCEPT !.rounds = n + 1]
            ELSE OriginRounds(G, st1.all_parent_nodes, ignore_paths, var_ids_only, ord,
                              st1, n + 1)

\* the whole walk, with the number of rounds it ran
OriginWalk(G, assignment_node_id, ignore_paths, var_ids_only, ord) ==
    OriginRounds(G,
        IF assignment_node_id \in DOMAIN G.vertices \/ assignment_node_id \in DOMAIN G.sources
        THEN <<assignment_node_id>> ELSE << >>,
        ignore_paths, var_ids_only, ord,
        [visited_child_ids |-> {}, origin_nodes |-> << >>,
         all_parent_nodes |-> << >>, rounds |-> 0],
        0)

get_origin_node_ids(G, assignment_node_id, ignore_paths, var_ids_only, ord) ==
    OriginWalk(G, assignment_node_id, ignore_paths, var_ids_only, ord).origin_nodes

add_mixed_data(G, assignment_node_id, pos, ord) ==
    LET origin_node_ids == get_origin_node_ids(G, assignment_node_id, {}, FALSE, ord)
        hit == {id \in Range(origin_node_ids) : id.tag \in {"CallTo", "SpecializedCallTo"}}
    IN [G EXCEPT !.mixed_source_counts =
            [x \in (DOMAIN @) \cup hit |->
                IF x \in hit THEN At(@, x, {}) \cup {pos} ELSE @[x]]]

(***************************************************************************)
(* Specification Spec: a graph built by add_node, add_path, add_graph and  *)
(* add_mixed_data.                                                         *)
(***************************************************************************)
MaxNodes == 3

MaxEdges == 2

GraphIds == {CallTo(1), SpecializedCallTo(1, 1), Var(1)}

\* a vertex, a source and a sink under every id
GraphNodes ==
    UNION {{Node(id, kind) : kind \in {Kind("Vertex", id.tag = "SpecializedCallTo"),
                                       Kind("VariableUseSource", FALSE),
                                       Kind("VariableUseSink", FALSE)}} : id \in GraphIds}

Edges(G) ==
    UNION {{<<s, t>> : t \in DOMAIN G.forward_edges[s]} : s \in DOMAIN G.forward_edges}

WithinBounds(G) ==
    /\ Cardinality(DOMAIN G.vertices) + Cardinality(DOMAIN G.sources)
          + Cardinality(DOMAIN G.sinks) <= MaxNodes
    /\ Cardinality(Edges(G)) <= MaxEdges

\* the graphs handed to add_graph: new(kind) after one add_node or one add_path
\* (larger graphs are merged in by several add_graph calls)
SmallGraphs ==
    LET G0 == {new(k) : k \in GraphKinds}
    IN G0 \cup {add_node(G, n) : G \in G0, n \in GraphNodes}
          \cup {add_path(G, f, t, PKDefault, << >>, << >>) :
                    G \in G0, f \in GraphIds, t \in GraphIds}

AddNode ==
    /\ ~panicked
    /\ \E n \in GraphNodes :
        /\ WithinBounds(add_node(g, n))
        /\ g' = add_node(g, n)
    /\ UNCHANGED <<panicked, queryVars, diffVars, scanVars, expandVars>>

AddPath ==
    /\ ~panicked
    /\ \E f \in GraphIds, t \in GraphIds :
        /\ WithinBounds(add_path(g, f, t, PKDefault, << >>, << >>))
        /\ g' = add_path(g, f, t, PKDefault, << >>, << >>)
    /\ UNCHANGED <<panicked, queryVars, diffVars, scanVars, expandVars>>

AddGraph ==
    /\ ~panicked
    /\ \E graph \in SmallGraphs :
        IF g.kind # graph.kind
        THEN panicked' = TRUE /\ UNCHANGED <<g, queryVars, diffVars, scanVars, expandVars>>
        ELSE /\ WithinBounds(add_graph(g, graph))
             /\ g' = add_graph(g, graph)
             /\ UNCHANGED <<panicked, queryVars, diffVars, scanVars, expandVars>>

AddMixedData ==
    /\ ~panicked
    /\ \E id \in GraphIds, pos \in {"f.hack:1:1"}, ord \in Perms(GraphIds) :
        g' = add_mixed_data(g, id, pos, ord)
    /\ UNCHANGED <<panicked, queryVars, diffVars, scanVars, expandVars>>

Init ==
    /\ g \in {new(k) : k \in GraphKinds}
    /\ panicked = FALSE
    /\ Idle({"graph"})

Next == AddNode \/ AddPath \/ AddGraph \/ AddMixedData

Spec == Init /\ [][Next]_vars

\* C1: no node id maps to itself in forward_edges
C1_NoSelfLoops ==
    \A id \in DOMAIN g.forward_edges : id \notin DOMAIN g.forward_edges[id]

\* C1 witness: a graph holding a forward edge that came in through add_graph or add_path
C1_Witness == Cardinality(Edges(g)) = MaxEdges

\* C2: in a FunctionBody graph every forward edge s -> t has s in backward_edges[t]
C2_BackwardConsistent ==
    g.kind = "FunctionBody" =>
        \A e \in Edges(g) : e[1] \in At(g.backward_edges, e[2], {})

\* C2 witness: a FunctionBody graph with two edges
C2_Witness == g.kind = "FunctionBody" /\ Cardinality(Edges(g)) = MaxEdges

\* C4: specializations and specialized_calls are mutual inverses
C4_MutualInverses ==
    /\ \A u \in DOMAIN g.specializations : \A k \in g.specializations[u] :
            u \in At(g.specialized_calls, k, {})
    /\ \A k \in DOMAIN g.specialized_calls : \A u \in g.specialized_calls[k] :
            k \in At(g.specializations, u, {})

\* C5: a WholeProgram graph stores neither backward_edges nor mixed_source_counts
C5_WholeProgramStoresNoBackwardData ==
    IsWholeProgram(g.kind) =>
        g.backward_edges = EmptyMap /\ g.mixed_source_counts = EmptyMap

\* C3 as stated: every edge endpoint is in exactly one of vertices, sources, sinks
MappingsHolding(G, id) ==
    (IF id \in DOMAIN G.vertices THEN 1 ELSE 0)
    + (IF id \in DOMAIN G.sources THEN 1 ELSE 0)
    + (IF id \in DOMAIN G.sinks THEN 1 ELSE 0)

C3_EndpointsInExactlyOneMapping ==
    \A e \in Edges(g) : MappingsHolding(g, e[1]) = 1 /\ MappingsHolding(g, e[2]) = 1

\* C3 amended: every node the graph stores sits under its own id in the mapping
\* its kind selects (Vertex: vertices, source kinds: sources, sink kinds: sinks);
\* an edge endpoint may be in none of the mappings or in several
C3_NodesInMappingOfTheirKind ==
    /\ \A id \in DOMAIN g.vertices :
            g.vertices[id].id = id /\ g.vertices[id].kind.k = "Vertex"
    /\ \A id \in DOMAIN g.sources :
            g.sources[id].id = id /\ g.sources[id].kind.k \in SourceKinds
    /\ \A id \in DOMAIN g.sinks :
            g.sinks[id].id = id /\ g.sinks[id].kind.k \in SinkKinds

\* C3 witness: an edge from a stored source to a stored sink
C3_Witness ==
    \E e \in Edges(g) : e[1] \in DOMAIN g.sources /\ e[2] \in DOMAIN g.sinks

(***************************************************************************)
(* Specification SpecOrigin: get_origin_node_ids on function-body graphs   *)
(* whose edges are added by add_path.                                      *)
(***************************************************************************)
MaxWalkEdges == 4

WalkIds == {Var(1), Var(2), CallTo(1), CallTo(2)}

WalkOrders == Perms(WalkIds)

\* the nodes of the walked graphs: either every id is a vertex or a source,
\* or CallTo(2) is only a sink; Var(1) is a variable-use source, and nothing
\* flows into it
WalkNodeSets ==
    {{Node(Var(1), Kind("VariableUseSource", FALSE)), Node(Var(2), Kind("Vertex", FALSE)),
      Node(CallTo(1), Kind("Vertex", FALSE)), Node(CallTo(2), k)} :
        k \in {Kind("Vertex", FALSE), Kind("VariableUseSink", FALSE)}}

RECURSIVE AddNodes(_, _)
AddNodes(G, nodes) ==
    IF nodes = {} THEN G
    ELSE LET n == CHOOSE n \in nodes : TRUE
         IN AddNodes(add_node(G, n), nodes \ {n})

OriginInit ==
    /\ g \in {AddNodes(new("FunctionBody"), nodes) : nodes \in WalkNodeSets}
    /\ panicked = FALSE
    /\ Idle({"graph"})

\* a call is made on a graph not yet walked; get_origin_node_ids reads the graph only
OriginAddPath ==
    /\ walk = NoWalk
    /\ \E f \in WalkIds, t \in WalkIds \ {Var(1)}, pk \in {PKDefault, PKAggregate} :
        /\ Cardinality(Edges(add_path(g, f, t, pk, << >>, << >>))) <= MaxWalkEdges
        /\ g' = add_path(g, f, t, pk, << >>, << >>)
    /\ walk' = NoWalk
    /\ UNCHANGED <<panicked, usage, diffVars, scanVars, expandVars>>

GetOriginNodeIds ==
    /\ walk = NoWalk
    /\ \E id \in WalkIds, ignore_paths \in {{}, {PKAggregate}}, var_ids_only \in BOOLEAN,
          ord \in WalkOrders :
        LET r == OriginWalk(g, id, ignore_paths, var_ids_only, ord)
        IN walk' = [id |-> id, ignore_paths |-> ignore_paths,
                    var_ids_only |-> var_ids_only,
                    origin_nodes |-> r.origin_nodes, rounds |-> r.rounds]
    /\ UNCHANGED <<g, panicked, usage, diffVars, scanVars, expandVars>>

OriginNext == OriginAddPath \/ GetOriginNodeIds

SpecOrigin == OriginInit /\ [][OriginNext]_vars

\* C10: the list returned by get_origin_node_ids holds no id twice
C10_NoDuplicateOrigins == NoDup(walk.origin_nodes)

\* C10 witness: a walk over a diamond (two parents sharing a grandparent) that
\* returned the shared grandparent
C10_Witness ==
    \E a, b, c \in WalkIds :
        /\ b # c
        /\ {b, c} \subseteq At(g.backward_edges, walk.id, {})
        /\ a \in At(g.backward_edges, b, {}) /\ a \in At(g.backward_edges, c, {})
        /\ a \in Range(walk.origin_nodes)

\* C20: when the path from some parent to the walked child has a kind of
\* ignore_paths, none of the child's parents enters the next round, in whatever
\* order the parents are visited: a walk from such a child ends after its first
\* round with the child as its only origin.
C20_IgnoredPathStopsChild ==
    /\ walk # NoWalk
    /\ walk.id \in (DOMAIN g.vertices) \cup (DOMAIN g.sources)
    /\ ~(walk.var_ids_only /\ walk.id.tag \in {"Var", "Param"})
    /\ \E from_id \in At(g.backward_edges, walk.id, {}) :
          g.forward_edges[from_id][walk.id].kind \in walk.ignore_paths
    => walk.origin_nodes = <<walk.id>> /\ walk.rounds = 1

\* C27: with ignore_paths empty and var_ids_only false every id returned by
\* get_origin_node_ids is the start id or backward-reachable from it, and is a
\* root: none of its predecessors in backward_edges is in vertices or sources.
\* A start id with no root behind it, as on a rootless cycle, yields the empty
\* list.
C27_OriginsAreReachableRoots ==
    walk # NoWalk /\ walk.ignore_paths = {} /\ ~walk.var_ids_only =>
        LET Back(S) == S \cup UNION {At(g.backward_edges, x, {}) : x \in S}
            reach == Back(Back(Back(Back({walk.id}))))
            present == (DOMAIN g.vertices) \cup (DOMAIN g.sources)
            IsRoot(id) == At(g.backward_edges, id, {}) \cap present = {}
        IN /\ \A id \in Range(walk.origin_nodes) : id \in reach /\ IsRoot(id)
           /\ (\A id \in reach : ~IsRoot(id)) => walk.origin_nodes = << >>

\* C27 witness: a walk that started on a cycle and returned the root behind it
C27_Witness ==
    /\ walk # NoWalk /\ walk.ignore_paths = {} /\ ~walk.var_ids_only
    /\ \E b \in At(g.backward_edges, walk.id, {}) : walk.id \in At(g.backward_edges, b, {})
    /\ walk.origin_nodes = <<Var(1)>> /\ walk.id # Var(1)

(***************************************************************************)
(* The unused-variable search: is_variable_used, get_variable_child_nodes. *)
(* ord is the iteration order of the hash maps.                            *)
(***************************************************************************)
UseBudget == 200

\* scan of previous_path_types from the last entry backwards; nesting counts the
\* fetches met that still wait for their assignment
RECURSIVE IgnoreScan(_, _, _, _, _, _)
IgnoreScan(assign_k, fetch_k, path_type, match_type, previous_path_types, nesting) ==
    IF previous_path_types = << >>
    THEN FALSE
    ELSE LET n == Len(previous_path_types)
             prev == previous_path_types[n]
             rest == SubSeq(previous_path_types, 1, n - 1)
         IN IF prev.k = assign_k /\ prev.adk = match_type
            THEN IF nesting > 0
                 THEN IgnoreScan(assign_k, fetch_k, path_type, match_type, rest, nesting - 1)
                 ELSE prev.key # path_type.key
            ELSE IF prev.k = fetch_k /\ prev.adk = match_type
                 THEN IgnoreScan(assign_k, fetch_k, path_type, match_type, rest, nesting + 1)
                 ELSE IgnoreScan(assign_k, fetch_k, path_type, match_type, rest, nesting)

\* an array fetch on match_type is ignored when the nearest unmatched array
\* assignment on match_type in previous_path_types wrote another key
should_ignore_array_fetch(path_type, match_type, previous_path_types) ==
    /\ path_type.k = "ArrayFetch"
    /\ path_type.adk = match_type
    /\ IgnoreScan("ArrayAssignment", "ArrayFetch", path_type, match_type,
                  previous_path_types, 0)

\* a property fetch is ignored when the nearest unmatched property assignment
\* wrote another property
should_ignore_property_fetch(path_type, previous_path_types) ==
    /\ path_type.k = "PropertyFetch"
    /\ IgnoreScan("PropertyAssignment", "PropertyFetch", path_type, "",
                  previous_path_types, 0)

\* VariableUseNode::from, for the kinds it accepts
VariableUseNodeFrom(node) ==
    [pos |-> node.kind.pos,
     path_types |-> << >>,
     kind |-> IF node.kind.k = "VariableUseSource" THEN node.kind.source_kind ELSE "Default"]

\* the test that ends the search: the edge leads to a node of graph.sinks
IsSinkNever(G, to_id) == FALSE

IsSink(G, to_id) == to_id \in DOMAIN G.sinks

\* the loop over forward_edges[generated_source_id]; used = TRUE stands for None
RECURSIVE ChildScan(_, _, _, _, _, _)
ChildScan(G, generated_source_id, to_ids, generated_source, visited_source_ids, new_child_nodes) ==
    IF to_ids = << >>
    THEN [used |-> FALSE, nodes |-> new_child_nodes]
    ELSE LET to_id == Head(to_ids)
             path == G.forward_edges[generated_source_id][to_id]
             skip == \/ to_id \in visited_source_ids
                     \/ should_ignore_array_fetch(path.kind, "ArrayKey",
                                                  generated_source.path_types)
                     \/ should_ignore_array_fetch(path.kind, "ArrayValue",
                                                  generated_source.path_types)
                     \/ should_ignore_property_fetch(path.kind,
                                                     generated_source.path_types)
         IN IF IsSink(G, to_id)
            THEN [used |-> TRUE, nodes |-> EmptyMap]
            ELSE ChildScan(G, generated_source_id, Tail(to_ids), generated_source,
                    visited_source_ids,
                    IF skip
                    THEN new_child_nodes
                    ELSE Put(new_child_nodes, to_id,
                             [generated_source EXCEPT
                                !.path_types = Append(@, path.kind)]))

get_variable_child_nodes(G, generated_source_id, generated_source, visited_source_ids, ord) ==
    ChildScan(G, generated_source_id,
              InOrder(DOMAIN At(G.forward_edges, generated_source_id, EmptyMap), ord),
              generated_source, visited_source_ids, EmptyMap)

\* one round: the loop over sources; st = [used, visited_source_ids, new_child_nodes]
RECURSIVE UseScan(_, _, _, _, _)
UseScan(G, ids, sources, ord, st) ==
    IF ids = << >>
    THEN st
    ELSE LET id == Head(ids)
             visited == st.visited_source_ids \cup {id}
             child_nodes == get_variable_child_nodes(G, id, sources[id], visited, ord)
         IN IF child_nodes.used
            THEN [st EXCEPT !.used = TRUE, !.visited_source_ids = visited]
            ELSE UseScan(G, Tail(ids), sources, ord,
                    [st EXCEPT !.visited_source_ids = visited,
                               !.new_child_nodes = (child_nodes.nodes @@ @)])

\* a search that never runs out of rounds
UseBudgetSpentNever(i) == FALSE

\* the negation of the loop condition i < 200
UseBudgetSpent(i) == i >= UseBudget

\* while i < 200 { ... }
RECURSIVE UseRounds(_, _, _, _, _)
UseRounds(G, sources, visited_source_ids, ord, i) ==
    IF UseBudgetSpent(i) \/ sources = EmptyMap
    THEN [result |-> IF i = 1 THEN "NeverReferenced" ELSE "ReferencedButNotUsed",
          rounds |-> i]
    ELSE LET st == UseScan(G, InOrder(DOMAIN sources, ord), sources, ord,
                       [used |-> FALSE, visited_source_ids |-> visited_source_ids,
                        new_child_nodes |-> EmptyMap])
         IN IF st.used
            THEN [result |-> "Used", rounds |-> i + 1]
            ELSE UseRounds(G, st.new_child_nodes, st.visited_source_ids, ord, i + 1)

\* a search whose round counter starts at 1
UseSearchFromOne(G, source_node, ord) ==
    UseRounds(G, Put(EmptyMap, source_node.id, VariableUseNodeFrom(source_node)), {}, ord, 1)

\* the search with the number of rounds it entered
UseSearch(G, source_node, ord) ==
    UseRounds(G, Put(EmptyMap, source_node.id, VariableUseNodeFrom(source_node)), {}, ord, 0)

is_variable_used(G, source_node, ord) == UseSearch(G, source_node, ord).result

\* check_variables_used: the variable-use sources of graph.sources, met in the
\* order ord, are collected into a BTreeMap under (start_offset, end_offset),
\* where a later source replaces an earlier one of the same position; the map is
\* then walked in key order
check_variables_used(G, ord) ==
    LET ids == InOrder({id \in DOMAIN G.sources : G.sources[id].kind.k = "VariableUseSource"},
                       ord)
        PosOf(id) == <<G.sources[id].kind.pos.start_offset, G.sources[id].kind.pos.end_offset>>
        keys == {PosOf(ids[i]) : i \in DOMAIN ids}
        Less(a, b) == a[1] < b[1] \/ (a[1] = b[1] /\ a[2] < b[2])
        Last(key) == CHOOSE i \in DOMAIN ids :
                        /\ PosOf(ids[i]) = key
                        /\ \A j \in DOMAIN ids : PosOf(ids[j]) = key => j <= i
        variables == [n \in 1..Cardinality(keys) |->
                    G.sources[ids[Last(CHOOSE key \in keys :
                                     Cardinality({k \in keys : Less(k, key)}) = n - 1)]]]
        Hard(source_node) == /\ source_node.kind.pure
                             /\ source_node.kind.source_kind = "Default"
    IN [unused_nodes |->
            SelectSeq(variables, LAMBDA source_node :
                /\ is_variable_used(G, source_node, ord) = "NeverReferenced"
                /\ Hard(source_node)),
        unused_but_referenced_nodes |->
            SelectSeq(variables, LAMBDA source_node :
                \/ /\ is_variable_used(G, source_node, ord) = "NeverReferenced"
                   /\ ~Hard(source_node)
                \/ is_variable_used(G, source_node, ord) = "ReferencedButNotUsed")]

(***************************************************************************)
(* Specification SpecUse: is_variable_used on function-body graphs whose   *)
(* edges are added by add_path.                                            *)
(***************************************************************************)
MaxUseEdges == 3

UseIds == {Var(1), Var(2), Var(3), Var(4)}

UseOrders == Perms(UseIds)

\* Var(1) is the assigned variable, Var(4) a use of a variable
UseNodes ==
    {Node(Var(1), VariableUseSource(HPos(10, 12), "Default", TRUE)),
     Node(Var(2), Kind("Vertex", FALSE)),
     Node(Var(3), Kind("Vertex", FALSE)),
     Node(Var(4), VariableUseSink(HPos(30, 32)))}

VariableUseSources(G) ==
    {id \in DOMAIN G.sources : G.sources[id].kind.k = "VariableUseSource"}

UseInit ==
    /\ g = AddNodes(new("FunctionBody"), UseNodes)
    /\ panicked = FALSE
    /\ Idle({"graph"})

\* a search is made on a graph not yet searched; is_variable_used reads the graph only
UseAddPath ==
    /\ usage = NoUsage
    /\ \E f \in UseIds, t \in UseIds,
          pk \in {PKDefault, PK("ArrayAssignment", "ArrayValue", "a"),
                  PK("ArrayFetch", "ArrayValue", "b")} :
        /\ Cardinality(Edges(add_path(g, f, t, pk, << >>, << >>))) <= MaxUseEdges
        /\ g' = add_path(g, f, t, pk, << >>, << >>)
    /\ UNCHANGED <<panicked, walk, usage, diffVars, scanVars, expandVars>>

IsVariableUsed ==
    /\ usage = NoUsage
    /\ \E id \in VariableUseSources(g), ord \in UseOrders :
        LET r == UseSearch(g, g.sources[id], ord)
        IN usage' = [source |-> id, result |-> r.result, rounds |-> r.rounds]
    /\ UNCHANGED <<g, panicked, walk, diffVars, scanVars, expandVars>>

UseNext == UseAddPath \/ IsVariableUsed

SpecUse == UseInit /\ [][UseNext]_vars

\* C6: when a step adds a direct edge from a variable-use source classified
\* NeverReferenced or ReferencedButNotUsed to a node of graph.sinks, the source is
\* classified Used afterwards, in every iteration order
C6_SinkEdgeMakesUsed ==
    [][\A s \in VariableUseSources(g), t \in DOMAIN g.sinks :
        ( /\ t \notin DOMAIN At(g.forward_edges, s, EmptyMap)
          /\ t \in DOMAIN At(g'.forward_edges, s, EmptyMap)
          /\ \E ord \in UseOrders : is_variable_used(g, g.sources[s], ord)
                                      \in {"NeverReferenced", "ReferencedButNotUsed"} )
        => \A ord \in UseOrders : is_variable_used(g', g'.sources[s], ord) = "Used"]_vars

\* C6 witness: a search that answered Used for a source with a direct edge to a
\* sink and an ArrayFetch edge besides, and that is unused without the direct edge
C6_Witness ==
    /\ usage.result = "Used"
    /\ \E t \in DOMAIN g.sinks, o \in UseIds \ DOMAIN g.sinks :
        LET s == usage.source
            without == [g EXCEPT
                !.forward_edges[s] = [y \in (DOMAIN @) \ {t} |-> @[y]],
                !.backward_edges[t] = @ \ {s}]
        IN /\ t \in DOMAIN At(g.forward_edges, s, EmptyMap)
           /\ o \in DOMAIN At(g.forward_edges, s, EmptyMap)
           /\ g.forward_edges[s][o].kind.k = "ArrayFetch"
           /\ \A ord \in UseOrders :
                is_variable_used(without, g.sources[s], ord)
                    \in {"NeverReferenced", "ReferencedButNotUsed"}

\* C13: a search that hit no sink answered NeverReferenced exactly when the
\* first round left an empty frontier, which is when the source has no outgoing
\* edge or every outgoing edge is skipped, and ReferencedButNotUsed exactly when
\* the first round left a frontier that is not empty.
C13_FirstFrontierDecides ==
    usage.result \in {"NeverReferenced", "ReferencedButNotUsed"} =>
        \A ord \in UseOrders :
            LET first == get_variable_child_nodes(g, usage.source,
                             VariableUseNodeFrom(g.sources[usage.source]),
                             {usage.source}, ord)
            IN /\ ~first.used
               /\ usage.result = "NeverReferenced" <=> first.nodes = EmptyMap
               /\ usage.result = "ReferencedButNotUsed" <=> first.nodes # EmptyMap

\* C13 witness: a search that answered ReferencedButNotUsed after a first round
\* that kept one edge of the source and a later round that skipped an array
\* fetch of another key
C13_Witness ==
    /\ usage.result = "ReferencedButNotUsed"
    /\ usage.rounds = 2
    /\ \E a \in UseIds, b \in UseIds :
        /\ a \in DOMAIN At(g.forward_edges, usage.source, EmptyMap)
        /\ g.forward_edges[usage.source][a].kind.k = "ArrayAssignment"
        /\ b \in DOMAIN At(g.forward_edges, a, EmptyMap)
        /\ g.forward_edges[a][b].kind.k = "ArrayFetch"

SeqsUpTo(S, n) == UNION {[1..k -> S] : k \in 0..n}

(***************************************************************************)
(* Specification SpecCheck: check_variables_used on function-body graphs   *)
(* with two assigned variables.                                            *)
(***************************************************************************)
MaxCheckEdges == 2

\* the graph of UseNodes with Var(2) a second assigned variable (one at the
\* position of Var(1), one that is not pure, one of another kind) and up to
\* MaxCheckEdges edges added by add_path
CheckInit ==
    /\ \E second \in {VariableUseSource(HPos(10, 12), "Default", TRUE),
                       VariableUseSource(HPos(20, 22), "Default", FALSE),
                       VariableUseSource(HPos(20, 22), "NonPrivateParam", TRUE)},
          paths \in SeqsUpTo(UseIds \X UseIds \X
                                {PKDefault, PK("ArrayAssignment", "ArrayValue", "a"),
                                 PK("ArrayFetch", "ArrayValue", "b")}, MaxCheckEdges) :
        LET RECURSIVE AddPaths(_, _)
            AddPaths(G, rest) ==
                IF rest = << >> THEN G
                ELSE AddPaths(add_path(G, rest[1][1], rest[1][2], rest[1][3], << >>, << >>),
                              Tail(rest))
        IN g = AddPaths(AddNodes(new("FunctionBody"),
                            {n \in UseNodes : n.id # Var(2)} \cup {Node(Var(2), second)}),
                        paths)
    /\ panicked = FALSE
    /\ Idle({"graph"})

\* check_variables_used on a graph not yet searched; classes is what
\* is_variable_used answers for each variable-use source in the same order
CheckVariablesUsed ==
    /\ usage = NoUsage
    /\ \E ord \in UseOrders :
        LET r == check_variables_used(g, ord)
        IN usage' = [source |-> Var(0), result |-> "", rounds |-> 0,
                     unused_nodes |-> r.unused_nodes,
                     unused_but_referenced_nodes |-> r.unused_but_referenced_nodes,
                     classes |-> [id \in VariableUseSources(g) |->
                                     is_variable_used(g, g.sources[id], ord)]]
    /\ UNCHANGED <<g, panicked, walk, diffVars, scanVars, expandVars>>

SpecCheck == CheckInit /\ [][CheckVariablesUsed]_vars

\* C14: check_variables_used classifies every variable-use source of
\* graph.sources: it is in the first list iff it is NeverReferenced, pure and of
\* kind Default, in the second list iff it is NeverReferenced otherwise or
\* ReferencedButNotUsed, and in neither iff it is Used, also when two sources
\* carry the same position.
C14_EverySourceClassified ==
    "classes" \in DOMAIN usage =>
        \A id \in VariableUseSources(g) :
            LET source_node == g.sources[id]
                hard == source_node.kind.pure /\ source_node.kind.source_kind = "Default"
            IN /\ source_node \in Range(usage.unused_nodes)
                    <=> (usage.classes[id] = "NeverReferenced" /\ hard)
               /\ source_node \in Range(usage.unused_but_referenced_nodes)
                    <=> \/ usage.classes[id] = "NeverReferenced" /\ ~hard
                        \/ usage.classes[id] = "ReferencedButNotUsed"

(***************************************************************************)
(* Specification SpecChain: the two bounded walks on graphs long enough to *)
(* use up their budgets.  A chain is Var(1) -> Var(2) -> ... -> Var(n),    *)
(* Var(1) being a variable-use source and the others vertices; its tail is *)
(* nothing, an edge Var(n) -> Var(n + 1) into a sink, or the edge          *)
(* Var(n) -> Var(1) that closes a cycle.                                   *)
(***************************************************************************)
MaxChain == 202

\* the graph that add_node and add_path build for a chain, written out
ChainGraph(n, tail) ==
    LET Succ(i) == IF i < n THEN i + 1 ELSE IF tail = "sink" THEN n + 1 ELSE 1
        edges == {<<i, Succ(i)>> : i \in 1..(IF tail = "none" THEN n - 1 ELSE n)} \ {<<1, 1>>}
    IN [new("FunctionBody") EXCEPT
          !.sources = Put(EmptyMap, Var(1),
                          Node(Var(1), VariableUseSource(HPos(10, 12), "Default", TRUE))),
          !.vertices = [id \in {Var(i) : i \in 2..n} |-> Node(id, Kind("Vertex", FALSE))],
          !.sinks = IF tail = "sink"
                    THEN Put(EmptyMap, Var(n + 1), Node(Var(n + 1), VariableUseSink(HPos(30, 32))))
                    ELSE EmptyMap,
          !.forward_edges =
              [id \in {Var(e[1]) : e \in edges} |->
                  Put(EmptyMap, Var(Succ(id.n)), DataFlowPath(PKDefault, << >>, << >>))],
          !.backward_edges =
              [id \in {Var(e[2]) : e \in edges} |->
                  {Var(e[1]) : e \in {x \in edges : x[2] = id.n}}]]

\* a chain, and is_variable_used called on its source: the search is at the
\* head of its loop, with i = 0 and the source as the only entry of sources
ChainInit ==
    /\ \E n \in 1..MaxChain, tail \in {"none", "sink", "loop"} : g = ChainGraph(n, tail)
    /\ panicked = FALSE
    /\ walk = NoWalk
    /\ usage = [source |-> Var(1), result |-> "", rounds |-> 0,
                sources |-> Put(EmptyMap, Var(1), VariableUseNodeFrom(g.sources[Var(1)])),
                visited_source_ids |-> {}]
    /\ Idle({"graph", "query"})

\* get_origin_node_ids from the last vertex of the chain (the source when the
\* chain is one node long)
ChainOrigin ==
    /\ walk = NoWalk
    /\ usage.rounds = 0
    /\ LET n == Cardinality(DOMAIN g.vertices) + 1
           r == OriginWalk(g, Var(n), {}, FALSE, [i \in 1..(n + 1) |-> Var(i)])
       IN walk' = [id |-> Var(n), ignore_paths |-> {}, var_ids_only |-> FALSE,
                   origin_nodes |-> r.origin_nodes, rounds |-> r.rounds]
    /\ UNCHANGED <<g, panicked, usage, diffVars, scanVars, expandVars>>

\* one turn of the loop `while i < 200` of is_variable_used, or its end
ChainUseRound ==
    /\ usage.result = ""
    /\ walk = NoWalk
    /\ IF UseBudgetSpent(usage.rounds) \/ usage.sources = EmptyMap
       THEN usage' = [usage EXCEPT !.result = IF usage.rounds = 1 THEN "NeverReferenced"
                                              ELSE "ReferencedButNotUsed"]
       ELSE LET n == Cardinality(DOMAIN g.vertices) + 1
                ord == [i \in 1..(n + 1) |-> Var(i)]
                st == UseScan(g, InOrder(DOMAIN usage.sources, ord), usage.sources, ord,
                          [used |-> FALSE, visited_source_ids |-> usage.visited_source_ids,
                           new_child_nodes |-> EmptyMap])
            IN usage' = IF st.used
                        THEN [usage EXCEPT !.result = "Used", !.rounds = @ + 1]
                        ELSE [usage EXCEPT !.sources = st.new_child_nodes,
                                           !.visited_source_ids = st.visited_source_ids,
                                           !.rounds = @ + 1]
    /\ UNCHANGED <<g, panicked, walk, diffVars, scanVars, expandVars>>

SpecChain == ChainInit /\ [][ChainOrigin \/ ChainUseRound]_vars

\* C11: get_origin_node_ids ends within 50 rounds on every chain, with or
\* without a cycle, and returns what it found: the root Var(1) when the chain
\* has no cycle and the root is at most 49 backward steps from the start id,
\* and nothing when the root is farther away or the chain is a cycle.
C11_OriginWalkWithinBudget ==
    walk # NoWalk =>
        LET n == Cardinality(DOMAIN g.vertices) + 1
            cyclic == At(g.backward_edges, Var(1), {}) # {}
        IN /\ walk.rounds <= OriginBudget
           /\ walk.origin_nodes =
                  IF ~cyclic /\ n - 1 <= OriginBudget - 1 THEN <<Var(1)>> ELSE << >>

\* C11 witness: a walk that used all 50 rounds on a chain without a cycle whose
\* root is 50 steps from the start id, and returned nothing
C11_Witness ==
    /\ walk # NoWalk
    /\ walk.rounds = OriginBudget
    /\ walk.origin_nodes = << >>
    /\ At(g.backward_edges, Var(1), {}) = {}
    /\ Cardinality(DOMAIN g.vertices) = OriginBudget

\* C12: is_variable_used ends within 200 rounds on every chain, with or without
\* a cycle; a search that runs out of rounds before it met an edge into
\* graph.sinks answers ReferencedButNotUsed, so the answer is Used only when the
\* sink is met within 200 rounds, and NeverReferenced only for a source without
\* an edge.
C12_UseSearchWithinBudget ==
    LET n == Cardinality(DOMAIN g.vertices) + 1
    IN /\ usage.rounds <= UseBudget
       /\ usage.result # "" =>
            usage.result = IF g.sinks # EmptyMap /\ n <= UseBudget THEN "Used"
                           ELSE IF usage.rounds = 1 THEN "NeverReferenced"
                           ELSE "ReferencedButNotUsed"
       /\ usage.result = "NeverReferenced" => n = 1

\* C12 witness: a search that ran out of rounds with a frontier left, on a chain
\* that leads into a sink, and answered ReferencedButNotUsed
C12_Witness ==
    /\ usage.result = "ReferencedButNotUsed"
    /\ usage.rounds = UseBudget
    /\ usage.sources # EmptyMap
    /\ g.sinks # EmptyMap

(***************************************************************************)
(* The incremental diff engine: update_issues_from_diff.                   *)
(***************************************************************************)
\* `(x as isize + offset) as u32`: the value itself unless the sum is negative,
\* where the cast wraps by 2^32
AsU32(x) == IF x >= 0 THEN x ELSE x + 65536 * 65536

\* an Issue on one line with its Pos; id stands for its kind and message
Issue(id, symbol, start_offset, end_offset, line) ==
    [id |-> id, symbol |-> symbol,
     pos |-> [start_offset |-> start_offset, end_offset |-> end_offset,
              start_line |-> line, end_line |-> line]]

\* a deletion range taken without its two ends
InDeletionRangeExclusive(start_offset, range) ==
    start_offset > range[1] /\ start_offset < range[2]

\* `&issue.pos.start_offset >= from && &issue.pos.start_offset <= to`
InDeletionRange(start_offset, range) ==
    start_offset >= range[1] /\ start_offset <= range[2]

\* the closure of the second retain: false when some deletion range holds the offset
OutsideDeletions(issue, deletion_ranges) ==
    \A i \in DOMAIN deletion_ranges :
        ~InDeletionRange(issue.pos.start_offset, deletion_ranges[i])

\* the inner loop over diff_map without its break: every entry that holds the
\* start offset, as the entries before it left it, shifts the issue
RECURSIVE ShiftIssueEvery(_, _)
ShiftIssueEvery(issue, diff_map) ==
    IF diff_map = << >>
    THEN issue
    ELSE LET e == Head(diff_map)
         IN IF issue.pos.start_offset >= e[1] /\ issue.pos.start_offset <= e[2]
            THEN ShiftIssueEvery([issue EXCEPT
                                    !.pos.start_offset = AsU32(@ + e[3]),
                                    !.pos.end_offset = AsU32(@ + e[3]),
                                    !.pos.start_line = AsU32(@ + e[4]),
                                    !.pos.end_line = AsU32(@ + e[4])], Tail(diff_map))
            ELSE ShiftIssueEvery(issue, Tail(diff_map))

\* the inner loop over diff_map with its break: the first entry that holds the
\* start offset shifts the issue
RECURSIVE ShiftIssue(_, _)
ShiftIssue(issue, diff_map) ==
    IF diff_map = << >>
    THEN issue
    ELSE LET e == Head(diff_map)
         IN IF issue.pos.start_offset >= e[1] /\ issue.pos.start_offset <= e[2]
            THEN [issue EXCEPT
                    !.pos.start_offset = AsU32(@ + e[3]),
                    !.pos.end_offset = AsU32(@ + e[3]),
                    !.pos.start_line = AsU32(@ + e[4]),
                    !.pos.end_line = AsU32(@ + e[4])]
            ELSE ShiftIssue(issue, Tail(diff_map))

\* the body of the loop over existing_issues, for one file
UpdateFileIssues(existing_file, file_issues, codebase_diff, invalid_symbols_and_members) ==
    LET kept == SelectSeq(file_issues,
                    LAMBDA issue : /\ issue.symbol \notin invalid_symbols_and_members
                                   /\ issue.symbol[1] # existing_file)
        diff_map == IF existing_file \in DOMAIN codebase_diff.diff_map
                    THEN codebase_diff.diff_map[existing_file] ELSE << >>
        deletion_ranges == IF existing_file \in DOMAIN codebase_diff.deletion_ranges_map
                           THEN codebase_diff.deletion_ranges_map[existing_file] ELSE << >>
        undeleted == IF deletion_ranges # << >>
                     THEN SelectSeq(kept, LAMBDA issue : OutsideDeletions(issue, deletion_ranges))
                     ELSE kept
    IN IF kept = << >>
       THEN kept
       ELSE IF diff_map # << >>
            THEN [i \in DOMAIN undeleted |-> ShiftIssue(undeleted[i], diff_map)]
            ELSE undeleted

update_issues_from_diff(issues, codebase_diff, invalid_symbols_and_members) ==
    [existing_file \in DOMAIN issues |->
        UpdateFileIssues(existing_file, issues[existing_file], codebase_diff,
                         invalid_symbols_and_members)]

(***************************************************************************)
(* SpecDiff: the cached issues of one file, a CodebaseDiff and a set of    *)
(* invalid symbols are drawn from bounded sets; update_issues_from_diff    *)
(* then runs once.                                                         *)
(***************************************************************************)
MaxIssues == 2

MaxDiffEntries == 2

MaxDeletions == 1

\* the one cached file, by the StrId of its path
DiffFile == 1

\* cached issues of the file: the id of an issue is its place in the loaded
\* list, its symbol a declaration of the cached file itself or one of another
\* file, and it sits on line 10
IssueLists ==
    {[i \in DOMAIN l |-> Issue(i, l[i][1], l[i][2], l[i][2] + 1, 10)] :
        l \in SeqsUpTo({<<DiffFile, 0>>, <<5, 0>>} \X {2, 5, 8}, MaxIssues)}

\* diff_map entries are (from, to, file_offset, line_offset), and none moves an
\* offset of its range below zero; deletion ranges are (from, to)
CodebaseDiffs ==
    {[diff_map |-> IF dm = << >> THEN EmptyMap ELSE Put(EmptyMap, DiffFile, dm),
      deletion_ranges_map |-> IF dr = << >> THEN EmptyMap ELSE Put(EmptyMap, DiffFile, dr)] :
        dm \in SeqsUpTo({<<0, 4, 3, 1>>, <<3, 6, 3, 1>>, <<5, 9, 3, 1>>, <<5, 9, 0 - 5, 0 - 1>>},
                        MaxDiffEntries),
        dr \in SeqsUpTo({<<0, 4>>, <<3, 6>>, <<5, 9>>}, MaxDeletions)}

DiffInit ==
    /\ Idle({"diff"})
    /\ \E l \in IssueLists, d \in CodebaseDiffs, inv \in SUBSET {<<5, 0>>} :
        /\ existing_issues = Put(EmptyMap, DiffFile, l)
        /\ diff_in = [loaded |-> Put(EmptyMap, DiffFile, l), codebase_diff |-> d,
                      invalid_symbols_and_members |-> inv]
    /\ diff_pc = "loaded"

UpdateIssuesFromDiff ==
    /\ diff_pc = "loaded"
    /\ existing_issues' = update_issues_from_diff(existing_issues, diff_in.codebase_diff,
                                                  diff_in.invalid_symbols_and_members)
    /\ diff_pc' = "updated"
    /\ UNCHANGED <<graphVars, queryVars, diff_in, scanVars, expandVars>>

SpecDiff == DiffInit /\ [][UpdateIssuesFromDiff]_vars

DeletionRangesOf(file) ==
    IF file \in DOMAIN diff_in.codebase_diff.deletion_ranges_map
    THEN Range(diff_in.codebase_diff.deletion_ranges_map[file]) ELSE {}

\* C7 as stated: after update_issues_from_diff no surviving issue of a file has
\* its start_offset, as the update left it, inside a deletion range of that file.
C7_NoSurvivorInsideDeletion ==
    diff_pc = "updated" =>
        \A file \in DOMAIN existing_issues : \A i \in DOMAIN existing_issues[file] :
            \A range \in DeletionRangesOf(file) :
                ~(/\ existing_issues[file][i].pos.start_offset >= range[1]
                  /\ existing_issues[file][i].pos.start_offset <= range[2])

\* C7 amended: after update_issues_from_diff no surviving issue of a file had its
\* start_offset, as it was before the update, inside a deletion range
\* (from..to inclusive) of that file; deletion ranges are tested before the
\* diff_map shift, and the shifted offset may fall inside one.
C7_NoSurvivorWasInsideDeletion ==
    diff_pc = "updated" =>
        \A file \in DOMAIN existing_issues : \A i \in DOMAIN existing_issues[file] :
            \A range \in DeletionRangesOf(file) :
                LET before == diff_in.loaded[file][existing_issues[file][i].id]
                IN ~(/\ before.pos.start_offset >= range[1]
                     /\ before.pos.start_offset <= range[2])

\* an update that dropped one issue for a deletion range and shifted the one it kept
C7_Witness ==
    /\ diff_pc = "updated"
    /\ DeletionRangesOf(DiffFile) # {}
    /\ Len(diff_in.loaded[DiffFile]) = 2
    /\ \A i \in 1..2 : diff_in.loaded[DiffFile][i].symbol = <<5, 0>>
    /\ diff_in.invalid_symbols_and_members = {}
    /\ Len(existing_issues[DiffFile]) = 1
    /\ existing_issues[DiffFile][1].pos.start_offset
          # diff_in.loaded[DiffFile][existing_issues[DiffFile][1].id].pos.start_offset

\* C17: a surviving issue whose start_offset lies within [from, to] of a diff_map
\* entry of its file has its offsets moved by file_offset and its lines by
\* line_offset of the first such entry, once; one that matches no entry is as it
\* was loaded.
C17_ShiftedOnceByFirstMatch ==
    diff_pc = "updated" =>
        \A i \in DOMAIN existing_issues[DiffFile] :
            LET issue == existing_issues[DiffFile][i]
                before == diff_in.loaded[DiffFile][issue.id]
                diff_map == IF DiffFile \in DOMAIN diff_in.codebase_diff.diff_map
                            THEN diff_in.codebase_diff.diff_map[DiffFile] ELSE << >>
                matching == {j \in DOMAIN diff_map :
                                /\ before.pos.start_offset >= diff_map[j][1]
                                /\ before.pos.start_offset <= diff_map[j][2]}
            IN IF matching = {}
               THEN issue = before
               ELSE LET first == diff_map[CHOOSE j \in matching : \A k \in matching : j <= k]
                    IN /\ issue.pos.start_offset = before.pos.start_offset + first[3]
                       /\ issue.pos.end_offset = before.pos.end_offset + first[3]
                       /\ issue.pos.start_line = before.pos.start_line + first[4]
                       /\ issue.pos.end_line = before.pos.end_line + first[4]
                       /\ issue.id = before.id /\ issue.symbol = before.symbol

\* an update that kept two issues: one inside two entries that move it by
\* different amounts, the first of which moves it into the range of the second,
\* and one inside no entry
C17_Witness ==
    /\ diff_pc = "updated"
    /\ Len(existing_issues[DiffFile]) = 2
    /\ diff_in.codebase_diff.diff_map = Put(EmptyMap, DiffFile, << <<3, 6, 3, 1>>, <<5, 9, 0 - 5, 0 - 1>> >>)
    /\ diff_in.loaded[DiffFile][1].pos.start_offset = 5
    /\ existing_issues[DiffFile][1].pos.start_offset = 8
    /\ diff_in.loaded[DiffFile][2].pos.start_offset = 2
    /\ existing_issues[DiffFile][2] = diff_in.loaded[DiffFile][2]

\* C24: a cached issue survives update_issues_from_diff if and only if its
\* symbol is not in the invalid symbols and members, the first component of its
\* symbol is not the id of the file it is stored under, and its start_offset, as
\* it was before any shift, is outside every deletion range of that file; the
\* survivors keep their order.
C24_SurvivesIffValidAndUndeleted ==
    diff_pc = "updated" =>
        LET loaded == diff_in.loaded[DiffFile]
            Survives(issue) ==
                /\ issue.symbol \notin diff_in.invalid_symbols_and_members
                /\ issue.symbol[1] # DiffFile
                /\ \A range \in DeletionRangesOf(DiffFile) :
                      ~(issue.pos.start_offset >= range[1] /\ issue.pos.start_offset <= range[2])
            left == existing_issues[DiffFile]
        IN [i \in DOMAIN left |-> loaded[left[i].id]] = SelectSeq(loaded, Survives)

\* an update with one issue dropped for being of the file's own symbol and one
\* kept that the diff_map moved into a deletion range it was outside of
C24_Witness ==
    /\ diff_pc = "updated"
    /\ Len(diff_in.loaded[DiffFile]) = 2
    /\ diff_in.loaded[DiffFile][1].symbol = <<DiffFile, 0>>
    /\ diff_in.loaded[DiffFile][2].symbol = <<5, 0>>
    /\ diff_in.loaded[DiffFile][2].pos.start_offset = 2
    /\ DeletionRangesOf(DiffFile) = {<<3, 6>>}
    /\ Len(existing_issues[DiffFile]) = 1
    /\ existing_issues[DiffFile][1].id = 2
    /\ existing_issues[DiffFile][1].pos.start_offset = 5

(***************************************************************************)
(* The unused-variable autofix: Scanner, a visitor over the statements of  *)
(* one function body that emits byte-range replacements.                   *)
(***************************************************************************)
\* a Pos of the syntax tree or of a comment, with what the Scanner reads of it
SPos(start_offset, end_offset, line, beg_of_line) ==
    [start_offset |-> start_offset, end_offset |-> end_offset,
     line |-> line, beg_of_line |-> beg_of_line]

\* aast::Expr: sub holds the child expressions in visiting order, body the
\* statements of a lambda
Expr(k, pos, sub, body) == [k |-> k, pos |-> pos, sub |-> sub, body |-> body]

\* aast::Stmt: Stmt_::Expr holds one expression, Stmt_::If a condition and two blocks
Stmt(k, pos, expr, block1, block2) ==
    [k |-> k, pos |-> pos, expr |-> expr, block1 |-> block1, block2 |-> block2]

\* `expr_effects.get(&(start, end)).unwrap_or(&0)`, 0 being EFFECT_PURE
EffectsOf(in, pos) ==
    IF <<pos.start_offset, pos.end_offset>> \in DOMAIN in.expr_effects
    THEN in.expr_effects[<<pos.start_offset, pos.end_offset>>]
    ELSE "EFFECT_PURE"

\* FunctionAnalysisData::add_replacement: the replacement joins the replacement
\* set, a sequence of (byte_range, action)
add_replacement(st, offsets, replacement) ==
    [st EXCEPT !.replacements = Append(@, [range |-> offsets, action |-> replacement])]

\* no statement has a matching node
has_matching_node_never(in, start_offset) == FALSE

has_matching_node(in, start_offset) ==
    \E n \in in.unused_variable_nodes :
        /\ n.kind.k = "VariableUseSource"
        /\ n.kind.pos.start_offset = start_offset

\* remove_fixme_comments with its loop over the comments still to look at; the
\* text of a comment is held trimmed
RECURSIVE remove_fixme_comments(_, _, _, _)
remove_fixme_comments(comments, stmt, st, limit) ==
    IF comments = << >>
    THEN st
    ELSE LET c == Head(comments)
         IN IF c.pos.line = stmt.pos.line
            THEN IF c.kind = "CmtBlock" /\ c.text = "HHAST_FIXME[UnusedVariable]"
                 THEN add_replacement(st, <<c.pos.start_offset, limit>>,
                          <<"TrimPrecedingWhitespace", c.pos.beg_of_line>>)
                 ELSE remove_fixme_comments(Tail(comments), stmt, st, limit)
            ELSE IF c.pos.line = stmt.pos.line - 1
                 THEN IF /\ c.kind = "CmtBlock"
                         /\ c.text \in {"HAKANA_FIXME[UnusedAssignment]",
                                        "HAKANA_FIXME[UnusedAssignmentStatement]"}
                      THEN add_replacement(st,
                               <<c.pos.start_offset, stmt.pos.beg_of_line - 1>>,
                               <<"TrimPrecedingWhitespace", c.pos.beg_of_line>>)
                      ELSE remove_fixme_comments(Tail(comments), stmt, st, limit)
                 ELSE remove_fixme_comments(Tail(comments), stmt, st, limit)

\* the loop of visit_expr over the entries of a list(...) expression
RECURSIVE ListScan(_, _, _)
ListScan(in, exprs, st) ==
    IF exprs = << >>
    THEN st
    ELSE LET list_expr == Head(exprs)
         IN ListScan(in, Tail(exprs),
                IF has_matching_node(in, list_expr.pos.start_offset)
                THEN add_replacement(st,
                         <<list_expr.pos.start_offset, list_expr.pos.end_offset>>,
                         <<"Substitute", "$_">>)
                ELSE st)

\* what visit_stmt emits for a statement an unused node starts at
MatchingStmt(in, stmt, st) ==
    IF stmt.k = "Expr" /\ stmt.expr[1].k = "Assign"
    THEN LET rhs == stmt.expr[1].sub[2]
             PureEffects == {"EFFECT_PURE", "EFFECT_READ_GLOBALS", "EFFECT_READ_PROPS"}
         IN IF EffectsOf(in, rhs.pos) \in PureEffects
            THEN IF ~st.in_single_block
                 THEN remove_fixme_comments(in.comments, stmt,
                          add_replacement(st, <<stmt.pos.start_offset, stmt.pos.end_offset>>,
                              <<"TrimPrecedingWhitespace", stmt.pos.beg_of_line>>),
                          stmt.pos.start_offset)
                 ELSE st
            ELSE LET st1 == add_replacement(st,
                                <<stmt.pos.start_offset, rhs.pos.start_offset>>, <<"Remove">>)
                 IN IF /\ rhs.k = "ArrayGet"
                       /\ Len(rhs.sub) = 2
                       /\ EffectsOf(in, rhs.sub[2].pos) \in PureEffects
                    THEN add_replacement(st1,
                             <<rhs.sub[2].pos.start_offset - 1, rhs.sub[2].pos.end_offset + 1>>,
                             <<"Remove">>)
                    ELSE st1
    ELSE st

\* no block counts as a single expression statement
SingleExprBlockNever(block) == FALSE

\* `len() == 1 && matches!(block[0].1, aast::Stmt_::Expr(_))`
SingleExprBlock(block) == Len(block) = 1 /\ block[1].k = "Expr"

\* visit_stmt and visit_expr with the recursion of the Visitor trait: every
\* visit returns Ok, so the Err branch of visit_stmt is never taken
RECURSIVE visit_stmt(_, _, _), visit_expr(_, _, _), VisitBlock(_, _, _), VisitExprs(_, _, _)
VisitBlock(in, block, st) ==
    IF block = << >>
    THEN st
    ELSE VisitBlock(in, Tail(block), visit_stmt(in, Head(block), st))

VisitExprs(in, exprs, st) ==
    IF exprs = << >>
    THEN st
    ELSE VisitExprs(in, Tail(exprs), visit_expr(in, Head(exprs), st))

visit_expr(in, expr, st) ==
    LET st1 == IF expr.k = "List" THEN ListScan(in, expr.sub, st) ELSE st
    IN VisitBlock(in, expr.body, VisitExprs(in, expr.sub, st1))

\* st.flags is a log, not a field of the Scanner: in_single_block as every
\* statement visited found it and, for an if statement, as its visit left it
visit_stmt(in, stmt, st) ==
    IF stmt.k = "If"
    THEN LET st1 == VisitBlock(in, stmt.block1,
                        [st EXCEPT !.in_single_block = SingleExprBlock(stmt.block1)])
             st2 == VisitBlock(in, stmt.block2,
                        [st1 EXCEPT !.in_single_block = SingleExprBlock(stmt.block2)])
             Leave(out) ==
                 [out EXCEPT !.flags = Append(@, [at |-> stmt.pos.start_offset, k |-> "If",
                                                   before |-> st.in_single_block,
                                                   after |-> out.in_single_block])]
         IN Leave([st2 EXCEPT !.in_single_block = FALSE])
    ELSE LET logged == [st EXCEPT !.flags = Append(@, [at |-> stmt.pos.start_offset,
                                                        k |-> stmt.k,
                                                        before |-> st.in_single_block,
                                                        after |-> st.in_single_block])]
             st1 == IF has_matching_node(in, stmt.pos.start_offset)
                    THEN MatchingStmt(in, stmt, logged)
                    ELSE logged
         IN VisitExprs(in, stmt.expr, st1)

(***************************************************************************)
(* SpecScan: a function body of a few statements, a set of unused source   *)
(* nodes at its variables, and add_unused_expression_replacements visiting *)
(* the statements one by one.                                              *)
(***************************************************************************)
MaxStmts == 2

\* every statement has two lines of SlotWidth bytes together: a line that may
\* hold a comment, then the line of the statement
SlotWidth == 100

\* one statement of the body whose line starts at byte s and has number ln:
\* the statement, the comments of its two lines, the ranges of its calls, which
\* expr_effects has entries for (impure unless said otherwise), and the ranges
\* of the variables it assigns
StmtForm(form, s, ln) ==
    LET P(a, b) == SPos(s + a, s + b, ln, s)
        Lvar(pos) == Expr("Lvar", pos, << >>, << >>)
        IntLit(pos) == Expr("Int", pos, << >>, << >>)
        Call(pos, args) == Expr("Call", pos, args, << >>)
        Lfun(pos, body) == Expr("Lfun", pos, << >>, body)
        List(pos, exprs) == Expr("List", pos, exprs, << >>)
        \* array_get.1, the offset, is an Option: a sequence of none or one expression
        ArrayGet(pos, base, offset) == Expr("ArrayGet", pos, <<base>> \o offset, << >>)
        Assign(pos, lhs, rhs) == Expr("Assign", pos, <<lhs, rhs>>, << >>)
        ExprStmt(pos, expr) == Stmt("Expr", pos, <<expr>>, << >>, << >>)
        IfStmt(pos, cond, then_block, else_block) ==
            Stmt("If", pos, <<cond>>, then_block, else_block)
        Block(pos, text) == [pos |-> pos, kind |-> "CmtBlock", text |-> text]
        xIs1(a) == ExprStmt(P(a, a + 7),
                       Assign(P(a, a + 6), Lvar(P(a, a + 2)), IntLit(P(a + 5, a + 6))))
        F(stmt, comments, impure, assigned) ==
            [stmt |-> stmt, comments |-> comments, assigned |-> assigned,
             effects |-> [r \in impure |->
                            IF form = "IfSingleRead"
                            THEN "EFFECT_READ_PROPS" ELSE "EFFECT_IMPURE"]]
    IN CASE form = "AssignPure" ->        \* $x = 1;
                F(xIs1(0), << >>, {}, {<<s, s + 2>>})
         [] form = "AssignCall" ->        \* $x = foo();
                F(ExprStmt(P(0, 11),
                      Assign(P(0, 10), Lvar(P(0, 2)), Call(P(5, 10), << >>))),
                  << >>, {<<s + 5, s + 10>>}, {<<s, s + 2>>})
         [] form = "AssignArrayGet" ->    \* $x = foo()[$k];
                F(ExprStmt(P(0, 15),
                      Assign(P(0, 14), Lvar(P(0, 2)),
                          ArrayGet(P(5, 14), Call(P(5, 10), << >>), <<Lvar(P(11, 13))>>))),
                  << >>, {<<s + 5, s + 14>>, <<s + 5, s + 10>>}, {<<s, s + 2>>})
         [] form = "ListAssign" ->        \* list($a, $b) = pair();
                F(ExprStmt(P(0, 22),
                      Assign(P(0, 21),
                          List(P(0, 12), <<Lvar(P(5, 7)), Lvar(P(9, 11))>>),
                          Call(P(15, 21), << >>))),
                  << >>, {<<s + 15, s + 21>>}, {<<s + 5, s + 7>>, <<s + 9, s + 11>>})
         [] form = "IfSingle" ->          \* if ($c) { $x = 1; }
                F(IfStmt(P(0, 19), Lvar(P(4, 6)), <<xIs1(10)>>, << >>),
                  << >>, {}, {<<s + 10, s + 12>>})
         [] form \in {"IfSingleCall", "IfSingleRead"} ->
                \* if ($c) { $x = foo(); }, foo() impure or only reading properties
                F(IfStmt(P(0, 23), Lvar(P(4, 6)),
                      <<ExprStmt(P(10, 21),
                            Assign(P(10, 20), Lvar(P(10, 12)), Call(P(15, 20), << >>)))>>,
                      << >>),
                  << >>, {<<s + 15, s + 20>>}, {<<s + 10, s + 12>>})
         [] form = "IfLambdaIf" ->
                \* if ($c) { $f = () ==> { if ($d) { $x = 1; } $x = 1; }; }
                F(IfStmt(P(0, 52), Lvar(P(4, 6)),
                      <<ExprStmt(P(10, 50),
                            Assign(P(10, 49), Lvar(P(10, 12)),
                                Lfun(P(15, 49),
                                     <<IfStmt(P(23, 42), Lvar(P(27, 29)), <<xIs1(33)>>, << >>),
                                       xIs1(43)>>)))>>,
                      << >>),
                  << >>, {}, {<<s + 10, s + 12>>, <<s + 43, s + 45>>})
         [] form = "IfDouble" ->          \* if ($c) { $x = 1; $y = 2; } else { $z = 3; }
                F(IfStmt(P(0, 45), Lvar(P(4, 6)), <<xIs1(10), xIs1(18)>>, <<xIs1(36)>>),
                  << >>, {}, {<<s + 10, s + 12>>, <<s + 18, s + 20>>, <<s + 36, s + 38>>})
         [] form = "AssignLambda" ->      \* $f = () ==> { $y = 1; };
                F(ExprStmt(P(0, 24),
                      Assign(P(0, 23), Lvar(P(0, 2)), Lfun(P(5, 23), <<xIs1(13)>>))),
                  << >>, {}, {<<s, s + 2>>, <<s + 13, s + 15>>})
         [] form = "FixmeSameLine" ->     \* /* HHAST_FIXME[UnusedVariable] */ $x = 1;
                F(xIs1(34),
                  <<Block(P(0, 33), "HHAST_FIXME[UnusedVariable]")>>,
                  {}, {<<s + 34, s + 36>>})
         [] form = "FixmeTrailing" ->     \* $x = 1; /* HHAST_FIXME[UnusedVariable] */
                F(xIs1(0),
                  <<Block(P(8, 41), "HHAST_FIXME[UnusedVariable]")>>,
                  {}, {<<s, s + 2>>})
         [] form = "FixmeLineAbove" ->    \* /* HAKANA_FIXME[UnusedAssignment] */ and $x = 1; below
                F(xIs1(0),
                  <<Block(SPos(s - 40, s - 4, ln - 1, s - 40),
                          "HAKANA_FIXME[UnusedAssignment]")>>,
                  {}, {<<s, s + 2>>})

\* the statements of a body, each on the second line of its slot
BodyOf(forms) == [i \in DOMAIN forms |-> StmtForm(forms[i], i * SlotWidth, 2 * i + 1)]

RECURSIVE Concat(_)
Concat(seqs) == IF seqs = << >> THEN << >> ELSE Head(seqs) \o Concat(Tail(seqs))

\* add_unused_expression_replacements: the Scanner as constructed, on a body of
\* up to MaxStmts statements with a set of unused source nodes at variables it
\* assigns
ScanInit ==
    /\ Idle({"scan"})
    /\ \E forms \in UNION {[1..n -> {"AssignPure", "AssignCall", "AssignArrayGet",
                                     "ListAssign", "IfSingle", "IfSingleCall", "IfSingleRead",
                                     "IfLambdaIf", "IfDouble",
                                     "AssignLambda", "FixmeSameLine", "FixmeTrailing",
                                     "FixmeLineAbove"}] :
                              n \in 1..MaxStmts} :
        LET body == BodyOf(forms)
            UnusedNode(range) ==
                Node(Var(range[1]),
                     VariableUseSource(HPos(range[1], range[2]), "Default", TRUE))
            In(unused) ==
                [stmts |-> [i \in DOMAIN body |-> body[i].stmt],
                 comments |-> Concat([i \in DOMAIN body |-> body[i].comments]),
                 expr_effects |->
                     [r \in UNION {DOMAIN body[i].effects : i \in DOMAIN body} |->
                         body[CHOOSE i \in DOMAIN body : r \in DOMAIN body[i].effects].effects[r]],
                 unused_variable_nodes |-> {UnusedNode(r) : r \in unused}]
        IN scan_in \in {In(unused) :
                          unused \in SUBSET UNION {body[i].assigned : i \in DOMAIN body}}
    /\ scan = [in_single_block |-> FALSE, replacements |-> << >>, flags |-> << >>]
    /\ scan_pc = 1

\* one turn of `for stmt in stmts { visit(&mut scanner, analysis_data, stmt) }`
VisitStmt ==
    /\ scan_pc \in DOMAIN scan_in.stmts
    /\ scan' = visit_stmt(scan_in, scan_in.stmts[scan_pc], scan)
    /\ scan_pc' = scan_pc + 1
    /\ UNCHANGED <<graphVars, queryVars, diffVars, scan_in, expandVars>>

SpecScan == ScanInit /\ [][VisitStmt]_vars

\* two byte ranges [start, end) that share a byte
Overlap(a, b) == a[1] < b[2] /\ b[1] < a[2]

\* C8: the byte ranges of the replacements emitted for one function body never
\* overlap, whatever the set of unused source nodes, also when an unused
\* assignment is nested in the right-hand side of another unused assignment.
C8_ReplacementsNeverOverlap ==
    \A i, j \in DOMAIN scan.replacements :
        i < j => ~Overlap(scan.replacements[i].range, scan.replacements[j].range)

\* C19: an unused assignment that is the sole expression statement of an if or
\* else branch and whose right-hand side has effects EFFECT_PURE,
\* EFFECT_READ_GLOBALS or EFFECT_READ_PROPS gets no replacement: no emitted range
\* starts at the statement, as the ranges that remove or rewrite it do, or ends
\* at it, as the range that removes its same-line comment does (a statement
\* nested in its right-hand side may have a replacement of its own).
C19_SoleBranchStatementKept ==
    \A i \in DOMAIN scan_in.stmts : i < scan_pc /\ scan_in.stmts[i].k = "If" =>
        \A b \in {scan_in.stmts[i].block1, scan_in.stmts[i].block2} :
            /\ Len(b) = 1 /\ b[1].k = "Expr" /\ b[1].expr[1].k = "Assign"
            /\ \E n \in scan_in.unused_variable_nodes :
                    n.kind.pos.start_offset = b[1].pos.start_offset
            /\ EffectsOf(scan_in, b[1].expr[1].sub[2].pos)
                  \in {"EFFECT_PURE", "EFFECT_READ_GLOBALS", "EFFECT_READ_PROPS"}
            => \A r \in DOMAIN scan.replacements :
                  /\ scan.replacements[r].range[1] # b[1].pos.start_offset
                  /\ scan.replacements[r].range[2] # b[1].pos.start_offset

\* a visited body of `if ($c) { $x = 1; $y = 2; } else { $z = 3; }` and
\* `if ($c) { $x = foo(); }` with foo() reading properties and every assigned
\* variable unused: the two statements of the first branch are removed
C19_Witness ==
    /\ scan_pc = 3
    /\ scan_in.stmts[1].k = "If" /\ Len(scan_in.stmts[1].block1) = 2
    /\ Len(scan_in.stmts[1].block2) = 1
    /\ scan_in.stmts[2].k = "If" /\ Len(scan_in.stmts[2].block1) = 1
    /\ EffectsOf(scan_in, scan_in.stmts[2].block1[1].expr[1].sub[2].pos) = "EFFECT_READ_PROPS"
    /\ Cardinality(scan_in.unused_variable_nodes) = 4
    /\ Len(scan.replacements) = 2

\* C21 as stated: an assignment statement whose left-hand side matches an unused
\* source gets a Remove replacement from the statement start to the start of the
\* right-hand side when the right-hand side has effects outside EFFECT_PURE,
\* EFFECT_READ_GLOBALS, EFFECT_READ_PROPS or when the statement is the only
\* statement of an if/else branch.
C21_RemoveForImpureOrSole ==
    \A i \in DOMAIN scan_in.stmts : i < scan_pc =>
        \A b \in {<<scan_in.stmts[i]>>, scan_in.stmts[i].block1, scan_in.stmts[i].block2} :
            \A j \in DOMAIN b :
                /\ b[j].k = "Expr" /\ b[j].expr[1].k = "Assign"
                /\ \E n \in scan_in.unused_variable_nodes :
                        n.kind.pos.start_offset = b[j].pos.start_offset
                /\ \/ At(scan_in.expr_effects,
                         <<b[j].expr[1].sub[2].pos.start_offset,
                           b[j].expr[1].sub[2].pos.end_offset>>, "EFFECT_PURE") = "EFFECT_IMPURE"
                   \/ b # <<scan_in.stmts[i]>> /\ Len(b) = 1
                => \E r \in DOMAIN scan.replacements :
                      /\ scan.replacements[r].range
                            = <<b[j].pos.start_offset, b[j].expr[1].sub[2].pos.start_offset>>
                      /\ scan.replacements[r].action = <<"Remove">>

\* C21 amended: an assignment statement whose left-hand side matches an unused
\* source gets a Remove replacement from the statement start to the start of the
\* right-hand side, and no replacement over the whole statement, exactly when
\* the right-hand side has effects outside EFFECT_PURE, EFFECT_READ_GLOBALS,
\* EFFECT_READ_PROPS, whether or not it is the only statement of a branch.
C21_RemoveForImpureOnly ==
    \A i \in DOMAIN scan_in.stmts : i < scan_pc =>
        \A b \in {<<scan_in.stmts[i]>>, scan_in.stmts[i].block1, scan_in.stmts[i].block2} :
            \A j \in DOMAIN b :
                /\ b[j].k = "Expr" /\ b[j].expr[1].k = "Assign"
                /\ \E n \in scan_in.unused_variable_nodes :
                        n.kind.pos.start_offset = b[j].pos.start_offset
                => LET rhs == b[j].expr[1].sub[2]
                       impure == At(scan_in.expr_effects,
                                    <<rhs.pos.start_offset, rhs.pos.end_offset>>,
                                    "EFFECT_PURE") = "EFFECT_IMPURE"
                       removed == \E r \in DOMAIN scan.replacements :
                                     /\ scan.replacements[r].range
                                           = <<b[j].pos.start_offset, rhs.pos.start_offset>>
                                     /\ scan.replacements[r].action = <<"Remove">>
                       whole == \E r \in DOMAIN scan.replacements :
                                   scan.replacements[r].range
                                       = <<b[j].pos.start_offset, b[j].pos.end_offset>>
                   IN (removed <=> impure) /\ (impure => ~whole)

\* a visited body of `$x = foo();` and `if ($c) { $x = foo(); }` with foo()
\* impure and both variables unused: two Remove replacements
C21_Witness ==
    /\ scan_pc = 3
    /\ scan_in.stmts[1].k = "Expr" /\ scan_in.stmts[2].k = "If"
    /\ Len(scan_in.stmts[2].block1) = 1
    /\ Cardinality(scan_in.unused_variable_nodes) = 2
    /\ Len(scan.replacements) = 2
    /\ \A r \in 1..2 : scan.replacements[r].action = <<"Remove">>
    /\ scan.replacements[2].range = <<210, 215>>

\* C22: in_single_block is true exactly while the scanner is inside an if/else
\* branch that consists of a single expression statement (a statement of a
\* branch finds the flag as its branch sets it, a statement of the body finds it
\* false), and the walk of an if statement leaves the flag as it found it, also
\* for an if nested in a lambda within such a branch.
C22_FlagFollowsBranches ==
    /\ \A f \in DOMAIN scan.flags :
          scan.flags[f].k = "If" => scan.flags[f].after = scan.flags[f].before
    /\ \A i \in DOMAIN scan_in.stmts : i < scan_pc =>
          \A f \in DOMAIN scan.flags :
              /\ scan.flags[f].at = scan_in.stmts[i].pos.start_offset => ~scan.flags[f].before
              /\ \A b \in {scan_in.stmts[i].block1, scan_in.stmts[i].block2} :
                    \A j \in DOMAIN b :
                        scan.flags[f].at = b[j].pos.start_offset /\ b[j].k # "If"
                        => (scan.flags[f].before <=> Len(b) = 1 /\ b[1].k = "Expr")

\* C28: every replacement the autofix emits has a byte range with start <= end,
\* also the one that removes a same-line HHAST_FIXME[UnusedVariable] block
\* comment when the comment trails the statement on its line.
C28_RangesWellFormed ==
    \A r \in DOMAIN scan.replacements :
        scan.replacements[r].range[1] <= scan.replacements[r].range[2]

(***************************************************************************)
(* The type expander: expand_union and expand_atomic over the atomic kinds *)
(* TDict (without params), TVec, TNamedObject, TClosure, TTypeAlias        *)
(* (without type_params) and TClosureAlias; every other atomic here is a   *)
(* leaf that expand_atomic leaves as it is.                                *)
(***************************************************************************)
\* Option<T>: None, or Some(x)
None == << >>

Some(x) == <<x>>

\* StrId::THIS
THIS == "this"

TUnion(types) == [types |-> types, parent_nodes |-> << >>]

\* a TAtomic without fields: TInt, TString, TArraykey
TAtomic(k) == [k |-> k]

TMixedWithFlags(a, b, c, d) == [k |-> "TMixedWithFlags", flags |-> <<a, b, c, d>>]

TStringWithFlags(a, b, c) == [k |-> "TStringWithFlags", flags |-> <<a, b, c>>]

TVec(type_param) == [k |-> "TVec", type_param |-> type_param, known_items |-> None]

\* known_items is an Option of the fields in key order, each <<key, type>>
TDict(known_items, shape_name) ==
    [k |-> "TDict", known_items |-> known_items, params |-> None, shape_name |-> shape_name]

TNamedObject(name, type_params, is_this) ==
    [k |-> "TNamedObject", name |-> name, type_params |-> type_params, is_this |-> is_this]

TClosure(params, return_type, closure_id) ==
    [k |-> "TClosure", params |-> params, return_type |-> return_type,
     closure_id |-> closure_id]

TTypeAlias(name, as_type) ==
    [k |-> "TTypeAlias", name |-> name, type_params |-> None, as_type |-> as_type]

TClosureAlias(id) == [k |-> "TClosureAlias", id |-> id]

Function(name) == [k |-> "Function", name |-> name]

Method(classlike_name, method_name) ==
    [k |-> "Method", classlike_name |-> classlike_name, method_name |-> method_name]

\* StaticClassType::None, Name(name), Object(obj)
StaticClassType(tag, of) == [tag |-> tag, of |-> of]

\* TypeExpansionOptions::default()
DefaultOptions ==
    [file_path |-> None, self_class |-> None, static_class_type |-> StaticClassType("None", None),
     parent_class |-> None, evaluate_class_constants |-> TRUE,
     evaluate_conditional_types |-> FALSE, function_is_final |-> FALSE,
     expand_generic |-> FALSE, expand_templates |-> TRUE, expand_typenames |-> TRUE,
     expand_hakana_types |-> TRUE, expand_all_type_aliases |-> FALSE]

\* CodebaseInfo::class_extends_or_implements
class_extends_or_implements(codebase, child, parent) == <<child, parent>> \in codebase.extends

\* CodebaseInfo::get_declaring_method_id
get_declaring_method_id(codebase, method_id) ==
    IF method_id \in DOMAIN codebase.declaring_method_ids
    THEN codebase.declaring_method_ids[method_id] ELSE method_id

\* type_combiner::combine: the canonical merge keeps one of each atomic
RECURSIVE combine(_, _, _)
combine(types, codebase, overwrite_empty_array) ==
    IF types = << >>
    THEN << >>
    ELSE LET rest == combine(SelectSeq(Tail(types), LAMBDA t : t # Head(types)),
                             codebase, overwrite_empty_array)
         IN <<Head(types)>> \o rest

\* extend_dataflow_uniquely: the nodes not yet among the parent nodes are added
RECURSIVE extend_dataflow_uniquely(_, _)
extend_dataflow_uniquely(parent_nodes, new_nodes) ==
    IF new_nodes = << >>
    THEN parent_nodes
    ELSE extend_dataflow_uniquely(
             IF \E i \in DOMAIN parent_nodes : parent_nodes[i].id = Head(new_nodes).id
             THEN parent_nodes ELSE Append(parent_nodes, Head(new_nodes)),
             Tail(new_nodes))

\* DataFlowNode::get_for_type: the node of a shape as a whole
get_for_type(type_name, location) ==
    Node([tag |-> "Type", n |-> type_name, key |-> NoKey],
         [Kind("Vertex", FALSE) EXCEPT !.pos = location])

\* the loop over shape_field_taints stopping after the first tainted field
InjectFirstFieldTaint(G, type_name, shape_node, shape_field_taints) ==
    IF shape_field_taints = << >>
    THEN G
    ELSE LET field_name == Head(shape_field_taints)[1]
             field_node ==
                 Node([tag |-> "ShapeFieldAccess", n |-> type_name, key |-> field_name],
                      [Kind("TaintSource", FALSE) EXCEPT !.pos = Head(shape_field_taints)[2]])
         IN add_node(add_path(G, field_node.id, shape_node.id,
                              PK("ArrayAssignment", "ArrayValue", field_name), {}, {}),
                     field_node)

\* the loop over shape_field_taints with the two nodes it puts into the graph
RECURSIVE InjectFieldTaints(_, _, _, _)
InjectFieldTaints(G, type_name, shape_node, shape_field_taints) ==
    IF shape_field_taints = << >>
    THEN G
    ELSE LET field_name == Head(shape_field_taints)[1]
             field_node ==
                 Node([tag |-> "ShapeFieldAccess", n |-> type_name, key |-> field_name],
                      [Kind("TaintSource", FALSE) EXCEPT !.pos = Head(shape_field_taints)[2]])
             G1 == add_path(G, field_node.id, shape_node.id,
                            PK("ArrayAssignment", "ArrayValue", field_name), {}, {})
         IN InjectFieldTaints(add_node(G1, field_node), type_name, shape_node,
                              Tail(shape_field_taints))

\* what expand_atomic leaves behind: the atomic as mutated, skip_key, the two
\* accumulators and the data-flow graph
Expanded(part, skip_key, new_return_type_parts, extra_data_flow_nodes, G) ==
    [part |-> part, skip_key |-> skip_key, new_return_type_parts |-> new_return_type_parts,
     extra_data_flow_nodes |-> extra_data_flow_nodes, G |-> G]

RECURSIVE expand_union(_, _, _, _, _), expand_atomic(_, _, _, _, _, _, _, _)
RECURSIVE ExpandParts(_, _, _, _, _), ExpandEach(_, _, _, _, _)
RECURSIVE get_closure_from_id(_, _, _, _), get_expanded_closure(_, _, _, _, _)

\* expand_union on each union of a sequence in turn; an Option of a union is a
\* sequence of none or one
ExpandEach(codebase, interner, unions, options, G) ==
    IF unions = << >>
    THEN [unions |-> << >>, G |-> G]
    ELSE LET Rest(h) ==
                 LET Join(t) == [unions |-> <<h.union>> \o t.unions, G |-> t.G]
                 IN Join(ExpandEach(codebase, interner, Tail(unions), options, h.G))
         IN Rest(expand_union(codebase, interner, Head(unions), options, G))

\* the TTypeAlias arm of expand_atomic
ExpandTypeAlias(part, codebase, interner, options, G, skip_key, new_return_type_parts, extra_data_flow_nodes) ==
    IF ~options.expand_typenames
    THEN Expanded(part, skip_key, new_return_type_parts, extra_data_flow_nodes, G)
    ELSE IF part.name \notin DOMAIN codebase.type_definitions
    THEN Expanded(part, TRUE,
             Append(new_return_type_parts, TMixedWithFlags(TRUE, FALSE, FALSE, FALSE)),
             extra_data_flow_nodes, G)
    ELSE
    LET type_definition == codebase.type_definitions[part.name]
        can_expand_type ==
            IF type_definition.newtype_file # None
            THEN IF options.file_path # None
                 THEN options.file_path[1] = type_definition.newtype_file[1]
                 ELSE options.expand_all_type_aliases
            ELSE TRUE
        \* the arm that replaces the alias by its expanded definition
        Replace(untemplated_type) ==
            LET IsShape(v) == v.k = "TDict" /\ v.known_items # None
                shapes == {i \in DOMAIN untemplated_type.union.types :
                              IsShape(untemplated_type.union.types[i])}
                injects == /\ shapes # {}
                           /\ type_definition.shape_field_taints # None
                           /\ interner
                shape_node == get_for_type(part.name, type_definition.location)
                expanded_types ==
                    [i \in DOMAIN untemplated_type.union.types |->
                        IF i \in shapes /\ ~options.expand_all_type_aliases
                        THEN [untemplated_type.union.types[i] EXCEPT
                                !.shape_name = Some(<<part.name, None>>)]
                        ELSE untemplated_type.union.types[i]]
            IN Expanded(part, TRUE, new_return_type_parts \o expanded_types,
                   IF injects
                   THEN extra_data_flow_nodes \o [i \in 1..Cardinality(shapes) |-> shape_node]
                   ELSE extra_data_flow_nodes,
                   IF injects
                   THEN add_node(InjectFieldTaints(untemplated_type.G, part.name, shape_node,
                                     type_definition.shape_field_taints[1]), shape_node)
                   ELSE untemplated_type.G)
        \* the arm that keeps the alias and expands its as_type
        Keep(definition_as_type) ==
            Expanded([part EXCEPT !.as_type = Some(definition_as_type.union)], skip_key,
                new_return_type_parts, extra_data_flow_nodes, definition_as_type.G)
    IN IF type_definition.is_literal_string /\ options.expand_hakana_types
       THEN Expanded(part, TRUE,
                Append(new_return_type_parts, TStringWithFlags(FALSE, FALSE, TRUE)),
                extra_data_flow_nodes, G)
       ELSE IF can_expand_type
       THEN Replace(expand_union(codebase, interner, type_definition.actual_type, options, G))
       ELSE IF type_definition.as_type # None
       THEN Keep(expand_union(codebase, interner, type_definition.as_type[1], options, G))
       ELSE Expanded(part, skip_key, new_return_type_parts, extra_data_flow_nodes, G)

\* the TNamedObject arm of expand_atomic
ExpandNamedObject(part, codebase, interner, options, G, skip_key, new_return_type_parts, extra_data_flow_nodes) ==
    LET static == options.static_class_type
        replaced == Expanded(part, TRUE, Append(new_return_type_parts, static.of),
                        extra_data_flow_nodes, G)
        renamed ==
            IF part.name = THIS
            THEN [part EXCEPT
                    !.name = IF static.tag = "Name" THEN static.of ELSE THIS,
                    !.is_this = IF options.function_is_final THEN FALSE ELSE @]
            ELSE part
        WithParams(type_params) ==
            Expanded(IF renamed.type_params = None
                     THEN renamed
                     ELSE [renamed EXCEPT !.type_params = Some(type_params.unions)],
                skip_key, new_return_type_parts, extra_data_flow_nodes, type_params.G)
    IN IF part.name = THIS /\ static.tag = "Object"
       THEN replaced
       ELSE IF /\ part.name # THIS
               /\ part.is_this
               /\ static.tag = "Object"
               /\ static.of.k = "TNamedObject"
               /\ class_extends_or_implements(codebase, static.of.name, part.name)
       THEN replaced
       ELSE WithParams(ExpandEach(codebase, interner,
                IF renamed.type_params = None THEN << >> ELSE renamed.type_params[1],
                options, G))

expand_atomic(return_type_part, codebase, interner, options, G, skip_key, new_return_type_parts, extra_data_flow_nodes) ==
    LET part == return_type_part
        Same(p, G1) == Expanded(p, skip_key, new_return_type_parts, extra_data_flow_nodes, G1)
    IN CASE part.k = "TDict" ->
              LET items == IF part.known_items = None THEN << >> ELSE part.known_items[1]
                  WithItems(r) ==
                      Same([part EXCEPT
                              !.known_items =
                                  IF part.known_items = None THEN None
                                  ELSE Some([i \in DOMAIN items |-> <<items[i][1], r.unions[i]>>]),
                              !.shape_name = IF options.expand_all_type_aliases
                                             THEN None ELSE @], r.G)
              IN WithItems(ExpandEach(codebase, interner,
                     [i \in DOMAIN items |-> items[i][2]], options, G))
         [] part.k = "TVec" ->
              LET WithParam(r) == Same([part EXCEPT !.type_param = r.union], r.G)
              IN WithParam(expand_union(codebase, interner, part.type_param, options, G))
         [] part.k = "TNamedObject" ->
              ExpandNamedObject(part, codebase, interner, options, G, skip_key,
                  new_return_type_parts, extra_data_flow_nodes)
         [] part.k = "TClosure" ->
              LET sigs == [i \in DOMAIN part.params |-> part.params[i].signature_type]
                  given == SelectSeq(sigs, LAMBDA t : t # None)
                  Nth(i) == Cardinality({j \in 1..i : sigs[j] # None})
                  WithReturn(ret) ==
                      LET WithParams(r) ==
                              Same([part EXCEPT
                                      !.return_type = ret.unions,
                                      !.params =
                                          [i \in DOMAIN part.params |->
                                              IF sigs[i] = None THEN part.params[i]
                                              ELSE [part.params[i] EXCEPT
                                                      !.signature_type = Some(r.unions[Nth(i)])]]],
                                   r.G)
                      IN WithParams(ExpandEach(codebase, interner,
                             [i \in DOMAIN given |-> given[i][1]], options, ret.G))
              IN WithReturn(ExpandEach(codebase, interner, part.return_type, options, G))
         [] part.k = "TTypeAlias" ->
              ExpandTypeAlias(part, codebase, interner, options, G, skip_key,
                  new_return_type_parts, extra_data_flow_nodes)
         [] part.k = "TClosureAlias" ->
              LET Replace(value) ==
                      IF value.closure # None
                      THEN Expanded(part, TRUE, Append(new_return_type_parts, value.closure[1]),
                               extra_data_flow_nodes, value.G)
                      ELSE Same(part, value.G)
              IN Replace(get_closure_from_id(part.id, codebase, interner, G))
         [] OTHER -> Same(part, G)

\* the loop of expand_union over return_type.types; acc holds the atomics as
\* mutated, skipped_keys and the two accumulators
ExpandParts(codebase, interner, types, options, acc) ==
    IF types = << >>
    THEN acc
    ELSE LET Step(r) ==
                 ExpandParts(codebase, interner, Tail(types), options,
                     [types |-> Append(acc.types, r.part),
                      skipped_keys |-> IF r.skip_key
                                       THEN acc.skipped_keys \cup {Len(acc.types) + 1}
                                       ELSE acc.skipped_keys,
                      new_return_type_parts |-> r.new_return_type_parts,
                      extra_data_flow_nodes |-> r.extra_data_flow_nodes,
                      G |-> r.G])
         IN Step(expand_atomic(Head(types), codebase, interner, options, acc.G, FALSE,
                     acc.new_return_type_parts, acc.extra_data_flow_nodes))

expand_union(codebase, interner, return_type, options, G) ==
    LET Finish(r) ==
            LET retained ==
                    [i \in 1..(Len(r.types) - Cardinality(r.skipped_keys)) |->
                        r.types[CHOOSE j \in DOMAIN r.types :
                                   /\ j \notin r.skipped_keys
                                   /\ Cardinality({l \in 1..j : l \notin r.skipped_keys}) = i]]
                parts == r.new_return_type_parts \o retained
                types == IF r.skipped_keys # {}
                         THEN IF Len(parts) > 1 THEN combine(parts, codebase, FALSE) ELSE parts
                         ELSE r.types
            IN [union |-> [types |-> types,
                           parent_nodes |-> extend_dataflow_uniquely(return_type.parent_nodes,
                                                r.extra_data_flow_nodes)],
                G |-> r.G]
    IN Finish(ExpandParts(codebase, interner, return_type.types, options,
                  [types |-> << >>, skipped_keys |-> {}, new_return_type_parts |-> << >>,
                   extra_data_flow_nodes |-> << >>, G |-> G]))

get_closure_from_id(id, codebase, interner, G) ==
    LET Closure(c) == [closure |-> Some(c.closure), G |-> c.G]
    IN IF id.k = "Function"
       THEN IF <<id.name, "">> \in DOMAIN codebase.functionlike_infos
            THEN Closure(get_expanded_closure(codebase.functionlike_infos[<<id.name, "">>],
                             codebase, interner, G, DefaultOptions))
            ELSE [closure |-> None, G |-> G]
       ELSE LET declaring_method_id ==
                    get_declaring_method_id(codebase, <<id.classlike_name, id.method_name>>)
            IN IF declaring_method_id \in DOMAIN codebase.functionlike_infos
               THEN Closure(get_expanded_closure(
                                codebase.functionlike_infos[declaring_method_id],
                                codebase, interner, G,
                                [DefaultOptions EXCEPT
                                   !.self_class = Some(id.classlike_name),
                                   !.static_class_type =
                                       StaticClassType("Name", id.classlike_name)]))
               ELSE [closure |-> None, G |-> G]

get_expanded_closure(functionlike_info, codebase, interner, G, options) ==
    LET sigs == [i \in DOMAIN functionlike_info.params |->
                    functionlike_info.params[i].signature_type]
        given == SelectSeq(sigs, LAMBDA t : t # None)
        Nth(i) == Cardinality({j \in 1..i : sigs[j] # None})
        WithParams(r) ==
            LET WithReturn(ret) ==
                    [closure |->
                        TClosure([i \in DOMAIN sigs |->
                                     [signature_type |->
                                         IF sigs[i] = None THEN None
                                         ELSE Some(r.unions[Nth(i)])]],
                                 ret.unions, functionlike_info.def_location),
                     G |-> ret.G]
            IN WithReturn(ExpandEach(codebase, interner, functionlike_info.return_type,
                              options, r.G))
    IN WithParams(ExpandEach(codebase, interner, [i \in DOMAIN given |-> given[i][1]],
                      options, G))

(***************************************************************************)
(* SpecExpand: a union over a small codebase is expanded by expand_union   *)
(* again and again under the same options, on the same data-flow graph.    *)
(***************************************************************************)
MaxAtomics == 2

MaxExpansions == 2

\* a TTypeAlias as written in a signature, and a parameter
Alias(name) == TTypeAlias(name, None)

FnParameter(signature_type) == [signature_type |-> signature_type]

\*   type A = int;                        newtype N as arraykey = int;   (in file F1)
\*   type S = shape('secret' => string);  with 'secret' a taint source
\*   type T = shape('a' => string, 'b' => int);  with 'a' and 'b' taint sources
\*   type L = string;                     marked as a literal string
\*   function f(A $a): N                  function h($a)
\*   class D extends C { function m(): this }    class E extends D
Codebase ==
    LET TypeDefinition(actual_type, as_type, newtype_file, is_literal_string, taints) ==
            [actual_type |-> actual_type, as_type |-> as_type, newtype_file |-> newtype_file,
             is_literal_string |-> is_literal_string, shape_field_taints |-> taints,
             location |-> HPos(0, 20)]
        FunctionLikeInfo(params, return_type, def_location) ==
            [params |-> params, return_type |-> return_type, def_location |-> def_location]
    IN
    [type_definitions |->
        ("A" :> TypeDefinition(TUnion(<<TAtomic("TInt")>>), None, None, FALSE, None)) @@
        ("N" :> TypeDefinition(TUnion(<<TAtomic("TInt")>>),
                    Some(TUnion(<<TAtomic("TArraykey")>>)), Some("F1"), FALSE, None)) @@
        ("S" :> TypeDefinition(
                    TUnion(<<TDict(Some(<<<<"secret", TUnion(<<TAtomic("TString")>>)>>>>),
                                   None)>>),
                    None, None, FALSE, Some(<<<<"secret", HPos(7, 15)>>>>))) @@
        ("T" :> TypeDefinition(
                    TUnion(<<TDict(Some(<<<<"a", TUnion(<<TAtomic("TString")>>)>>,
                                          <<"b", TUnion(<<TAtomic("TInt")>>)>>>>),
                                   None)>>),
                    None, None, FALSE, Some(<<<<"a", HPos(3, 4)>>, <<"b", HPos(5, 6)>>>>))) @@
        ("L" :> TypeDefinition(TUnion(<<TAtomic("TString")>>), None, None, TRUE, None)),
     functionlike_infos |->
        (<<"f", "">> :> FunctionLikeInfo(<<FnParameter(Some(TUnion(<<Alias("A")>>)))>>,
                            Some(TUnion(<<Alias("N")>>)), <<"F1", 40>>)) @@
        (<<"h", "">> :> FunctionLikeInfo(<<FnParameter(None)>>, None, <<"F2", 40>>)) @@
        (<<"D", "m">> :> FunctionLikeInfo(<< >>,
                             Some(TUnion(<<TNamedObject(THIS, None, TRUE)>>)), <<"F2", 80>>)),
     declaring_method_ids |-> (<<"E", "m">> :> <<"D", "m">>),
     extends |-> {<<"D", "C">>, <<"E", "D">>, <<"E", "C">>}]

ExpandAtomics ==
    {TAtomic("TInt"), Alias("A"), Alias("N"), Alias("S"), Alias("T"), Alias("L"),
     Alias("Missing"),
     TVec(TUnion(<<Alias("A")>>)),
     TNamedObject(THIS, None, TRUE),
     TNamedObject("C", Some(<<TUnion(<<Alias("A")>>)>>), TRUE),
     TClosure(<<FnParameter(Some(TUnion(<<Alias("A")>>)))>>, Some(TUnion(<<Alias("N")>>)),
              <<"F2", 7>>),
     TClosureAlias(Function("f")), TClosureAlias(Function("h")),
     TClosureAlias(Function("missing")), TClosureAlias(Method("E", "m")),
     TDict(Some(<<<<"k", TUnion(<<Alias("A")>>)>>>>), Some(<<"S", None>>))}

\* the options of a call and whether it has an interner
ExpandCalls ==
    {[options |-> [DefaultOptions EXCEPT !.static_class_type = static,
                                         !.file_path = file_path,
                                         !.expand_all_type_aliases = expand_all_type_aliases],
      interner |-> TRUE] :
        static \in {StaticClassType("None", None), StaticClassType("Name", "D"),
                    StaticClassType("Object",
                        TNamedObject("D", Some(<<TUnion(<<Alias("A")>>)>>), FALSE)),
                    StaticClassType("Object", TNamedObject("X", None, FALSE))},
        file_path \in {None, Some("F1"), Some("F2")},
        expand_all_type_aliases \in BOOLEAN}
    \cup {[options |-> DefaultOptions, interner |-> FALSE],
          [options |-> [DefaultOptions EXCEPT !.expand_typenames = FALSE], interner |-> TRUE],
          [options |-> [DefaultOptions EXCEPT !.expand_hakana_types = FALSE],
           interner |-> TRUE],
          [options |-> [DefaultOptions EXCEPT
                          !.static_class_type = StaticClassType("Name", "D"),
                          !.function_is_final = TRUE],
           interner |-> TRUE]}

\* a union of up to MaxAtomics different atomics, and the options of the calls
ExpandInit ==
    /\ Idle({"expand"})
    /\ \E types \in SeqsUpTo(ExpandAtomics, MaxAtomics), call \in ExpandCalls :
        /\ types # << >> /\ NoDup(types)
        /\ expand_in = [return_type |-> TUnion(types), options |-> call.options,
                        interner |-> call.interner]
        /\ expanded = [return_type |-> TUnion(types),
                       data_flow_graph |-> new("FunctionBody"), previous |-> None]
    /\ expand_pc = 0

\* one call of expand_union on the union as the call before left it
ExpandUnion ==
    /\ expand_pc \in 0..(MaxExpansions - 1)
    /\ LET r == expand_union(Codebase, expand_in.interner, expanded.return_type,
                    expand_in.options, expanded.data_flow_graph)
       IN expanded' = [return_type |-> r.union, data_flow_graph |-> r.G,
                       previous |-> Some([return_type |-> expanded.return_type,
                                          data_flow_graph |-> expanded.data_flow_graph])]
    /\ expand_pc' = expand_pc + 1
    /\ UNCHANGED <<graphVars, queryVars, diffVars, scanVars, expand_in>>

SpecExpand == ExpandInit /\ [][ExpandUnion]_vars

\* C9: expanding a union twice with expand_union under the same options and
\* codebase yields the same union and the same data-flow graph as expanding it
\* once, for every atomic kind.
C9_ExpandTwiceIsExpandOnce ==
    expand_pc >= 2 =>
        /\ expanded.return_type = expanded.previous[1].return_type
        /\ expanded.data_flow_graph = expanded.previous[1].data_flow_graph

C25_NewtypeExpandsInItsFileOrOnRequest ==
    /\ expand_pc = 1
    /\ expand_in.options.expand_typenames
    /\ Alias("N") \in Range(expand_in.return_type.types)
    => LET types == Range(expanded.return_type.types)
           definition == Codebase.type_definitions["N"]
       IN IF \/ expand_in.options.file_path = definition.newtype_file
             \/ expand_in.options.expand_all_type_aliases
          THEN /\ \A t \in types : ~(t.k = "TTypeAlias" /\ t.name = "N")
               /\ Range(definition.actual_type.types) \subseteq types
          ELSE TTypeAlias("N", definition.as_type) \in types

(***************************************************************************)
(* Specification SpecOrder: is_variable_used on graphs in which a vertex   *)
(* can be reached twice in one round: Var(1) flows into Var(2) and Var(3), *)
(* these into each other and into Var(5), and Var(5) into the use Var(4).  *)
(***************************************************************************)
MaxOrderEdges == 5

OrderIds == UseIds \cup {Var(5)}

OrderOrders == Perms(OrderIds)

OrderInit ==
    /\ g = AddNodes(new("FunctionBody"), UseNodes \cup {Node(Var(5), Kind("Vertex", FALSE))})
    /\ panicked = FALSE
    /\ Idle({"graph"})

\* a search is made on a graph not yet searched
OrderAddPath ==
    /\ usage = NoUsage
    /\ \E e \in {<<Var(1), Var(2)>>, <<Var(1), Var(3)>>, <<Var(2), Var(3)>>,
                  <<Var(3), Var(2)>>, <<Var(3), Var(5)>>, <<Var(5), Var(4)>>},
          pk \in {PKDefault, PK("ArrayAssignment", "ArrayValue", "a"),
                  PK("ArrayFetch", "ArrayValue", "b")} :
        /\ Cardinality(Edges(add_path(g, e[1], e[2], pk, << >>, << >>))) <= MaxOrderEdges
        /\ g' = add_path(g, e[1], e[2], pk, << >>, << >>)
    /\ UNCHANGED <<panicked, walk, usage, diffVars, scanVars, expandVars>>

IsVariableUsedInOrder ==
    /\ usage = NoUsage
    /\ \E id \in VariableUseSources(g), ord \in OrderOrders :
        LET r == UseSearch(g, g.sources[id], ord)
        IN usage' = [source |-> id, result |-> r.result, rounds |-> r.rounds]
    /\ UNCHANGED <<g, panicked, walk, diffVars, scanVars, expandVars>>

OrderNext == OrderAddPath \/ IsVariableUsedInOrder

SpecOrder == OrderInit /\ [][OrderNext]_vars

\* C29: for a fixed graph and variable-use source the classification returned
\* by is_variable_used is the same for every order in which the frontier nodes
\* and each node's forward edges are iterated, also when a node is reached in
\* one round by two paths with different path_types.
C29_ClassificationIgnoresOrder ==
    usage # NoUsage =>
        \A ord \in OrderOrders :
            is_variable_used(g, g.sources[usage.source], ord) = usage.result

(***************************************************************************)
(* SpecAlias: the calls of expand_union that expanding aliases nests, one  *)
(* step per part visited.  `expanded` is here the stack of the running     *)
(* expand_union calls: the alias whose actual_type a call expands (None    *)
(* for the outermost call) and the parts its loop has still to visit.      *)
(***************************************************************************)
MaxAliasParts == 2

MaxDepth == 4

\* the two aliases of the codebase, each defined as a union of int and aliases
AliasInit ==
    /\ Idle({"expand"})
    /\ \E a, b \in SeqsUpTo({TAtomic("TInt"), Alias("A"), Alias("B")}, MaxAliasParts),
          newtype_file \in {None, Some("F1")}, file_path \in {None, Some("F1"), Some("F2")},
          expand_typenames \in BOOLEAN, start \in {"A", "B", "U"} :
        /\ a # << >> /\ b # << >>
        /\ expand_in =
            [type_definitions |->
                ("A" :> [actual_type |-> TUnion(a), newtype_file |-> None,
                         is_literal_string |-> FALSE]) @@
                ("B" :> [actual_type |-> TUnion(b), newtype_file |-> newtype_file,
                         is_literal_string |-> FALSE]),
             return_type |-> TUnion(<<Alias(start)>>),
             options |-> [expand_typenames |-> expand_typenames, file_path |-> file_path,
                          expand_hakana_types |-> TRUE,
                          expand_all_type_aliases |-> FALSE]]
        /\ expanded = <<[name |-> None, types |-> <<Alias(start)>>]>>
    /\ expand_pc = 1

\* the next step of the innermost running expand_union: its loop ends and the
\* call returns, or expand_atomic visits the next part, and for an alias that
\* can be expanded calls expand_union on a clone of the alias's actual_type
ExpandAtomicStep ==
    /\ expanded # << >>
    /\ LET top == expanded[Len(expanded)]
           callers == SubSeq(expanded, 1, Len(expanded) - 1)
           options == expand_in.options
       IN IF top.types = << >>
          THEN expanded' = callers
          ELSE LET return_type_part == Head(top.types)
                   visited == Append(callers, [top EXCEPT !.types = Tail(@)])
                   type_name == return_type_part.name
                   type_definition == expand_in.type_definitions[type_name]
                   can_expand_type ==
                       IF type_definition.newtype_file # None
                       THEN IF options.file_path # None
                            THEN options.file_path = type_definition.newtype_file
                            ELSE options.expand_all_type_aliases
                       ELSE TRUE
               IN IF /\ return_type_part.k = "TTypeAlias"
                     /\ options.expand_typenames
                     /\ type_name \in DOMAIN expand_in.type_definitions
                     /\ ~(type_definition.is_literal_string /\ options.expand_hakana_types)
                     /\ can_expand_type
                  THEN /\ Len(expanded) < MaxDepth
                       /\ expanded' = Append(visited,
                                         [name |-> Some(type_name),
                                          types |-> type_definition.actual_type.types])
                  ELSE expanded' = visited
    /\ expand_pc' = Len(expanded')
    /\ UNCHANGED <<graphVars, queryVars, diffVars, scanVars, expand_in>>

SpecAlias == AliasInit /\ [][ExpandAtomicStep]_vars

\* C26: expand_union terminates for every finite union and every codebase of
\* type definitions: no call of expand_union on an alias's actual_type runs
\* inside another call on the same alias's actual_type, so an alias whose
\* actual_type mentions itself, directly or through another alias, nests only
\* as many calls as there are aliases.
C26_NoAliasExpandedWithinItself ==
    LET running == SelectSeq(expanded, LAMBDA call : call.name # None)
    IN /\ NoDup([i \in DOMAIN running |-> running[i].name])
       /\ Len(running) <= Cardinality(DOMAIN expand_in.type_definitions)

(***************************************************************************)
(* mark_safe_symbols_from_diff: what of a previous analysis survives a     *)
(* CodebaseDiff.  StrId 0 is StrId::EMPTY, the member part of a symbol     *)
(* that is no member.                                                      *)
(***************************************************************************)
\* both cache files taken as readable whenever asked for
LoadedAnyway(in) ==
    IF in.previous_analysis_result # None
    THEN in.previous_analysis_result
    ELSE Some([symbol_references |-> "cached", emitted_issues |-> EmptyMap])

\* the first `let ... = if ... else if ... else`: the references and issues of
\* the previous result, else those of the two cache files, else nothing
Loaded(in) ==
    IF in.previous_analysis_result # None
    THEN in.previous_analysis_result
    ELSE IF in.issues_path # None /\ in.references_path # None
         THEN IF in.cache.references = None \/ in.cache.issues = None
              THEN None
              ELSE Some([symbol_references |-> in.cache.references[1],
                         emitted_issues |-> in.cache.issues[1]])
         ELSE None

\* every kept symbol without a member part is safe
SafeSymbolsDespitePartial(keep, invalid_symbols_and_members, partially_invalid_symbols) ==
    {k[1] : k \in {k \in keep : k \notin invalid_symbols_and_members /\ k[2] = 0}}

\* the safe_symbols the loop over codebase_diff.keep inserts
SafeSymbols(keep, invalid_symbols_and_members, partially_invalid_symbols) ==
    {k[1] : k \in {k \in keep : /\ k \notin invalid_symbols_and_members
                                /\ k[2] = 0
                                /\ k[1] \notin partially_invalid_symbols}}

\* the files that declare an invalid or partially invalid symbol, without
\* invalid_scanned_files
InvalidFilesDeclared(in, invalid_symbols_and_members, partially_invalid_symbols) ==
    {in.interner[file_id] :
        file_id \in {f \in DOMAIN in.codebase.files :
            \E name \in in.codebase.files[f] :
                \/ <<name, 0>> \in invalid_symbols_and_members
                \/ name \in partially_invalid_symbols}}

\* invalid_files: the paths of the files with an ast node named by an invalid or
\* partially invalid symbol, extended by those of invalid_scanned_files
InvalidFiles(in, invalid_symbols_and_members, partially_invalid_symbols) ==
    {in.interner[file_id] :
        file_id \in {f \in DOMAIN in.codebase.files :
            \E name \in in.codebase.files[f] :
                \/ <<name, 0>> \in invalid_symbols_and_members
                \/ name \in partially_invalid_symbols}}
    \cup {in.interner[file_id] : file_id \in in.invalid_scanned_files}

\* returns the CachedAnalysis and files_to_analyze as the call leaves it;
\* in.invalid_symbols is what existing_references.get_invalid_symbols answers,
\* in.interner what interner.lookup answers, and the pruned references index
\* is kept as the index and the symbols pruned from it
mark_safe_symbols_from_diff(in) ==
    LET Default == [safe_symbols |-> {}, safe_symbol_members |-> {},
                    existing_issues |-> EmptyMap,
                    symbol_references |-> [of |-> "", without |-> {}]]
        existing == Loaded(in)
    IN IF existing = None \/ in.invalid_symbols = None
       THEN [cached_analysis |-> Default, files_to_analyze |-> in.files_to_analyze]
       ELSE LET invalid_symbols_and_members == in.invalid_symbols[1][1]
                partially_invalid_symbols == in.invalid_symbols[1][2]
                keep == in.codebase_diff.keep
                invalid_files == InvalidFiles(in, invalid_symbols_and_members,
                                              partially_invalid_symbols)
            IN [cached_analysis |->
                   [safe_symbols |-> SafeSymbols(keep, invalid_symbols_and_members,
                                                 partially_invalid_symbols),
                    safe_symbol_members |->
                        {k \in keep : k \notin invalid_symbols_and_members /\ k[2] # 0},
                    existing_issues |->
                        update_issues_from_diff(existing[1].emitted_issues, in.codebase_diff,
                                                invalid_symbols_and_members),
                    symbol_references |-> [of |-> existing[1].symbol_references,
                                           without |-> invalid_symbols_and_members]],
                files_to_analyze |->
                    SelectSeq(in.files_to_analyze, LAMBDA full_path : full_path \in invalid_files)]

(***************************************************************************)
(* SpecMark: one call of mark_safe_symbols_from_diff on a codebase of two  *)
(* files, file 1 declaring symbol 5 and file 2 symbol 6, with the previous *)
(* result, the cache files, the answer of the references index and the     *)
(* diff drawn from bounded sets.                                           *)
(***************************************************************************)
MarkInit ==
    /\ Idle({"diff"})
    /\ existing_issues = EmptyMap
    /\ diff_pc = "called"
    /\ \E previous \in BOOLEAN, paths \in {<<FALSE, FALSE>>, <<TRUE, FALSE>>, <<TRUE, TRUE>>},
          readable \in BOOLEAN \X BOOLEAN,
          invalid \in {None} \cup {Some(<<inv, part>>) :
                                      inv \in SUBSET {<<5, 0>>, <<5, 7>>, <<6, 0>>},
                                      part \in SUBSET {5}},
          keep \in SUBSET {<<5, 0>>, <<5, 7>>, <<6, 0>>},
          scanned \in SUBSET {2},
          diff_map \in {EmptyMap, Put(EmptyMap, DiffFile, << <<0, 4, 3, 1>>, <<0, 9, 1, 0>> >>)} :
        LET issues == Put(EmptyMap, DiffFile,
                          <<Issue(1, <<5, 0>>, 2, 3, 10), Issue(2, <<6, 0>>, 5, 6, 10)>>)
        IN diff_in =
            [previous_analysis_result |->
                 IF previous
                 THEN Some([symbol_references |-> "previous", emitted_issues |-> issues])
                 ELSE None,
             issues_path |-> IF paths[1] THEN Some("issues") ELSE None,
             references_path |-> IF paths[2] THEN Some("references") ELSE None,
             cache |-> [references |-> IF readable[1] THEN Some("cached") ELSE None,
                        issues |-> IF readable[2] THEN Some(issues) ELSE None],
             invalid_symbols |-> invalid,
             codebase_diff |-> [keep |-> keep, diff_map |-> diff_map,
                                deletion_ranges_map |-> EmptyMap],
             codebase |-> [files |-> [file_id \in {1, 2} |-> IF file_id = 1 THEN {5} ELSE {6}]],
             interner |-> [file_id \in {1, 2} |-> IF file_id = 1 THEN "a.hack" ELSE "b.hack"],
             invalid_scanned_files |-> scanned,
             files_to_analyze |-> <<"a.hack", "b.hack", "c.hack">>,
             returned |-> None]

MarkSafeSymbolsFromDiff ==
    /\ diff_pc = "called"
    /\ LET returned == mark_safe_symbols_from_diff(diff_in)
       IN /\ diff_in' = [diff_in EXCEPT !.returned = Some(returned)]
          /\ existing_issues' = returned.cached_analysis.existing_issues
    /\ diff_pc' = "returned"
    /\ UNCHANGED <<graphVars, queryVars, scanVars, expandVars>>

SpecMark == MarkInit /\ [][MarkSafeSymbolsFromDiff]_vars

\* the call went past its early returns: there is a previous result, or both
\* cache files are named and readable, and the references index answered
MarkSucceeded ==
    /\ diff_pc = "returned"
    /\ diff_in.invalid_symbols # None
    /\ \/ diff_in.previous_analysis_result # None
       \/ /\ diff_in.issues_path # None /\ diff_in.references_path # None
          /\ diff_in.cache.references # None /\ diff_in.cache.issues # None

C16_DeclinedReturnsEmpty ==
    diff_pc = "returned" /\ ~MarkSucceeded =>
        /\ diff_in.returned[1].cached_analysis.safe_symbols = {}
        /\ diff_in.returned[1].cached_analysis.safe_symbol_members = {}
        /\ diff_in.returned[1].cached_analysis.existing_issues = EmptyMap
        /\ existing_issues = EmptyMap
        /\ diff_in.returned[1].files_to_analyze = diff_in.files_to_analyze

\* a call without previous result whose references file cannot be read, though
\* the index would have answered, the diff keeps symbols and a file is invalid
C16_Witness ==
    /\ diff_pc = "returned"
    /\ diff_in.previous_analysis_result = None
    /\ diff_in.issues_path # None /\ diff_in.references_path # None
    /\ diff_in.cache.references = None
    /\ diff_in.invalid_symbols # None
    /\ diff_in.codebase_diff.keep # {}
    /\ diff_in.returned[1].files_to_analyze = <<"a.hack", "b.hack", "c.hack">>

\* C23: after mark_safe_symbols_from_diff succeeds, files_to_analyze is the
\* original vector restricted, in its order, to exactly the files that declare an
\* invalid or partially invalid top-level symbol or are in invalid_scanned_files.
C23_OnlyInvalidFilesRetained ==
    MarkSucceeded =>
        LET left == diff_in.returned[1].files_to_analyze
            invalid(full_path) ==
                \E file_id \in DOMAIN diff_in.codebase.files :
                    /\ diff_in.interner[file_id] = full_path
                    /\ \/ file_id \in diff_in.invalid_scanned_files
                       \/ \E name \in diff_in.codebase.files[file_id] :
                            \/ <<name, 0>> \in diff_in.invalid_symbols[1][1]
                            \/ name \in diff_in.invalid_symbols[1][2]
        IN left = SelectSeq(diff_in.files_to_analyze, invalid)

\* a successful call that kept a.hack for its partially invalid symbol and b.hack
\* for being rescanned, and dropped c.hack
C23_Witness ==
    /\ MarkSucceeded
    /\ diff_in.invalid_symbols[1] = <<{}, {5}>>
    /\ diff_in.invalid_scanned_files = {2}
    /\ diff_in.returned[1].files_to_analyze = <<"a.hack", "b.hack">>

\* C30: in every CachedAnalysis mark_safe_symbols_from_diff returns, no safe
\* symbol is invalid or partially invalid and no safe member is invalid; when
\* the references index gave no invalid symbols there are no safe symbols.
C30_SafeSymbolsAreValid ==
    diff_pc = "returned" =>
        LET cached == diff_in.returned[1].cached_analysis
        IN IF diff_in.invalid_symbols = None
           THEN cached.safe_symbols = {} /\ cached.safe_symbol_members = {}
           ELSE /\ \A symbol \in cached.safe_symbols :
                     /\ <<symbol, 0>> \notin diff_in.invalid_symbols[1][1]
                     /\ symbol \notin diff_in.invalid_symbols[1][2]
                /\ cached.safe_symbol_members \cap diff_in.invalid_symbols[1][1] = {}

\* a successful call whose diff keeps a partially invalid symbol, an invalid
\* member and a valid symbol, and that marked only the valid symbol as safe
C30_Witness ==
    /\ MarkSucceeded
    /\ diff_in.codebase_diff.keep = {<<5, 0>>, <<5, 7>>, <<6, 0>>}
    /\ diff_in.invalid_symbols[1] = <<{<<5, 7>>}, {5}>>
    /\ diff_in.returned[1].cached_analysis.safe_symbols = {6}
    /\ diff_in.returned[1].cached_analysis.safe_symbol_members = {}

====
